---- MODULE Spec2Model ----
(***************************************************************************)
(* A model of unitypackage-js: the UnityPackage asset store                *)
(* (src/src/unitypackage.ts with the rename / GUID operations of           *)
(* src/unnamed/part_004) and the GUID reference rewriter it uses, the     *)
(* entries of the archive on import and export, the gzip original-name     *)
(* header (src/unnamed/part_001), the thumbnail refresh, the curve editor   *)
(* UnityAnimation and the component editor UnityPrefab                     *)
(* (src/src/unityprefab.ts).  Each part has its own specification: Spec,   *)
(* SpecRW, SpecImport, SpecGzip, SpecThumb, SpecAnim and SpecPrefab;       *)
(* SpecStoreBack runs the store on sidecars with a byte-order mark and     *)
(* SpecOverlap runs store operations while thumbnail refreshes are         *)
(* pending.  The variables of the other parts stay at their idle values.   *)
(*                                                                         *)
(* Byte arrays and strings are sequences of units.  A unit of a byte array *)
(* is one ASCII byte (written as the character), the ill-formed byte       *)
(* "0xFF", or the well-formed multi-byte encoding of one code point        *)
(* ("EFBBBF" for U+FEFF, "EFBFBD" for U+FFFD).  A unit of a string is one  *)
(* character.  GUIDs are hexadecimal strings of GuidLen characters.        *)
(***************************************************************************)
EXTENDS Naturals, Integers, Sequences, FiniteSets, TLC

VARIABLES assets, guidToPath, pathToGuid, call, rw, imp, gz, thumb, anim, acall,
          prefab, pcall

storeVars == <<assets, guidToPath, pathToGuid, call>>

vars ==
  <<assets, guidToPath, pathToGuid, call, rw, imp, gz, thumb, anim, acall, prefab, pcall>>

----------------------------------------------------------------------------
(* Bounds *)

GuidLen == 2

MaxLen == 6

MaxEntries == 4

MaxBody == 2

MaxName == 2

MaxCalls == 3

\* most store operations while a call of refreshThumbnail is pending
MaxMoves == 2

----------------------------------------------------------------------------
(* Characters *)

HexChars ==
  {"0", "1", "2", "3", "4", "5", "6", "7", "8", "9",
   "a", "b", "c", "d", "e", "f", "A", "B", "C", "D", "E", "F"}

LineTerminators == {"\n", "\r"}

WhiteSpace == {" ", "\t", "\n", "\r", "U+FEFF"}

None == <<"undefined">>

NoGuid == <<>>

G1 == [i \in 1..GuidLen |-> "a"]

G2 == [i \in 1..GuidLen |-> "b"]

G3 == [i \in 1..GuidLen |-> IF i = GuidLen THEN "b" ELSE "a"]

Guids == {G1, G2, G3}

\* "p.PNG", "q" and "r " (with a trailing blank)
P1 == <<"p", ".", "P", "N", "G">>

P2 == <<"q">>

P3 == <<"r", " ">>

Paths == {P1, P2, P3}

GuidChars ==
  <<"0", "1", "2", "3", "4", "5", "6", "7", "8", "9", "a", "b", "c", "d", "e", "f">>

generateNewGuid_UpperCase(draws) ==
  [i \in 1..GuidLen |->
     <<"0", "1", "2", "3", "4", "5", "6", "7", "8", "9",
       "A", "B", "C", "D", "E", "F">>[draws[i] + 1]]

\* generateNewGuid; draws[i] is Math.floor(Math.random() * chars.length) in
\* the i-th iteration
generateNewGuid(draws) == [i \in 1..GuidLen |-> GuidChars[draws[i] + 1]]

\* the sequences of random draws considered: those that give G1, G2 and G3
Draws ==
  { [i \in 1..GuidLen |-> 10],
    [i \in 1..GuidLen |-> 11],
    [i \in 1..GuidLen |-> IF i = GuidLen THEN 11 ELSE 10] }

----------------------------------------------------------------------------
(* Map<K, V> *)

EmptyMap == <<>>

MapSet(m, k, v) == [x \in (DOMAIN m) \cup {k} |-> IF x = k THEN v ELSE m[x]]

MapDelete(m, k) == [x \in (DOMAIN m) \ {k} |-> m[x]]

----------------------------------------------------------------------------
(* TextDecoder('utf-8').decode / TextEncoder().encode *)

DecodeUnit(b) ==
  IF b = "0xFF" THEN "U+FFFD"
  ELSE IF b = "EFBFBD" THEN "U+FFFD"
  ELSE IF b = "EFBBBF" THEN "U+FEFF"
  ELSE b

uint8ArrayToString(bytes) ==
  LET s == IF Len(bytes) > 0 /\ bytes[1] = "EFBBBF" THEN Tail(bytes) ELSE bytes
  IN  [i \in 1..Len(s) |-> DecodeUnit(s[i])]

EncodeUnit(c) ==
  IF c = "U+FFFD" THEN "EFBFBD"
  ELSE IF c = "U+FEFF" THEN "EFBBBF"
  ELSE c

TextEncode(text) == [i \in 1..Len(text) |-> EncodeUnit(text[i])]

----------------------------------------------------------------------------
(* Regular expressions of replaceAssetGuid and replaceGuidReferences *)

MatchAt(text, i, pat) ==
  /\ i + Len(pat) - 1 <= Len(text)
  /\ SubSeq(text, i, i + Len(pat) - 1) = pat

guidPatternAt_NoLookahead(text, i, oldGuid) ==
  /\ MatchAt(text, i, oldGuid)
  /\ (i = 1 \/ text[i - 1] \notin HexChars)

\* (?<![a-fA-F0-9])oldGuid(?![a-fA-F0-9]) matches at position i
guidPatternAt(text, i, oldGuid) ==
  /\ MatchAt(text, i, oldGuid)
  /\ (i = 1 \/ text[i - 1] \notin HexChars)
  /\ (i + Len(oldGuid) > Len(text) \/ text[i + Len(oldGuid)] \notin HexChars)

guidPatternTest(text, oldGuid) ==
  \E i \in 1..Len(text) : guidPatternAt(text, i, oldGuid)

RECURSIVE ReplaceFrom(_, _, _, _)
ReplaceFrom(text, i, oldGuid, newGuid) ==
  IF i > Len(text) THEN <<>>
  ELSE IF guidPatternAt(text, i, oldGuid)
       THEN newGuid \o ReplaceFrom(text, i + Len(oldGuid), oldGuid, newGuid)
       ELSE <<text[i]>> \o ReplaceFrom(text, i + 1, oldGuid, newGuid)

\* content.replace(guidPattern, newGuid) with the 'g' flag
ReplaceAllGuid(text, oldGuid, newGuid) == ReplaceFrom(text, 1, oldGuid, newGuid)

GuidLine(guid) == <<"g", "u", "i", "d", ":", " ">> \o guid

\* ^guid: oldGuid$ with the 'm' flag matches at position i
metaLineAt(text, i, oldGuid) ==
  /\ MatchAt(text, i, GuidLine(oldGuid))
  /\ (i = 1 \/ text[i - 1] \in LineTerminators)
  /\ (i + Len(GuidLine(oldGuid)) > Len(text)
        \/ text[i + Len(GuidLine(oldGuid))] \in LineTerminators)

\* metaContent.replace(new RegExp(`^guid: ${oldGuid}$`, 'm'), `guid: ${targetGuid}`)
ReplaceMetaLine(text, oldGuid, targetGuid) ==
  IF \E i \in 1..Len(text) : metaLineAt(text, i, oldGuid)
  THEN LET i == CHOOSE j \in 1..Len(text) :
                  /\ metaLineAt(text, j, oldGuid)
                  /\ \A k \in 1..(j - 1) : ~metaLineAt(text, k, oldGuid)
       IN  SubSeq(text, 1, i - 1) \o GuidLine(targetGuid)
             \o SubSeq(text, i + Len(GuidLine(oldGuid)), Len(text))
  ELSE text

----------------------------------------------------------------------------
(* The store: UnityPackage._assets, _guidToPath, _pathToGuid *)

Store(a, g2p, p2g) == [assets |-> a, guidToPath |-> g2p, pathToGuid |-> p2g]

EmptyStore == Store(EmptyMap, EmptyMap, EmptyMap)

CurrentStore == Store(assets, guidToPath, pathToGuid)

RECURSIVE TrimStart(_)
TrimStart(text) ==
  IF Len(text) > 0 /\ text[1] \in WhiteSpace THEN TrimStart(Tail(text)) ELSE text

RECURSIVE TrimEnd(_)
TrimEnd(text) ==
  IF Len(text) > 0 /\ text[Len(text)] \in WhiteSpace
  THEN TrimEnd(SubSeq(text, 1, Len(text) - 1))
  ELSE text

\* String.prototype.trim
Trim(text) == TrimEnd(TrimStart(text))

\* one iteration of the loop over guidGroups
ImportGroup(st, group) ==
  IF group.pathname # None /\ group.asset # None
  THEN LET assetPath == Trim(uint8ArrayToString(group.pathname))
           asset == [guid        |-> group.guid,
                     assetPath   |-> assetPath,
                     assetData   |-> group.asset,
                     metaData    |-> group.meta,
                     previewData |-> group.preview]
       IN  Store(MapSet(st.assets, assetPath, asset),
                 MapSet(st.guidToPath, group.guid, assetPath),
                 MapSet(st.pathToGuid, assetPath, group.guid))
  ELSE st

RECURSIVE ImportGroups(_, _)
ImportGroups(st, groups) ==
  IF groups = <<>> THEN st
  ELSE ImportGroups(ImportGroup(st, Head(groups)), Tail(groups))

\* UnityPackage.fromArrayBuffer, from the GUID groups of the decoded archive
fromArrayBuffer(groups) == ImportGroups(EmptyStore, groups)

\* entry.name.split('/')
RECURSIVE Split(_)
Split(name) ==
  IF \A i \in 1..Len(name) : name[i] # "/" THEN <<name>>
  ELSE LET i == CHOOSE j \in 1..Len(name) :
                  name[j] = "/" /\ \A k \in 1..(j - 1) : name[k] # "/"
       IN  <<SubSeq(name, 1, i - 1)>> \o Split(SubSeq(name, i + 1, Len(name)))

KindAsset == <<"a", "s", "s", "e", "t">>

KindMeta == <<"a", "s", "s", "e", "t", ".", "m", "e", "t", "a">>

KindPathname == <<"p", "a", "t", "h", "n", "a", "m", "e">>

KindPreview == <<"p", "r", "e", "v", "i", "e", "w", ".", "p", "n", "g">>

EmptyGroup(guid) ==
  [guid |-> guid, pathname |-> None, asset |-> None, meta |-> None, preview |-> None]

\* the switch on fileName
SetGroupField(group, fileName, data) ==
  IF fileName = KindAsset THEN [group EXCEPT !.asset = data]
  ELSE IF fileName = KindMeta THEN [group EXCEPT !.meta = data]
  ELSE IF fileName = KindPathname THEN [group EXCEPT !.pathname = data]
  ELSE IF fileName = KindPreview THEN [group EXCEPT !.preview = data]
  ELSE group

\* one iteration of the loop over the archive entries
GroupEntry(groups, entry) ==
  LET pathParts == Split(entry.name)
  IN  IF Len(pathParts) >= 2
      THEN LET guid == pathParts[1]
               known == \E i \in 1..Len(groups) : groups[i].guid = guid
               gs == IF known THEN groups ELSE Append(groups, EmptyGroup(guid))
               i == CHOOSE j \in 1..Len(gs) : gs[j].guid = guid
           IN  [gs EXCEPT ![i] = SetGroupField(@, pathParts[2], entry.data)]
      ELSE groups

\* guidGroups, in insertion order, from the entries of the decoded archive
RECURSIVE guidGroups(_, _)
guidGroups(groups, entries) ==
  IF entries = <<>> THEN groups
  ELSE guidGroups(GroupEntry(groups, Head(entries)), Tail(entries))

\* UnityPackage.fromArrayBuffer, from the entries of the decoded archive
ImportEntries(entries) == fromArrayBuffer(guidGroups(<<>>, entries))

Entry(name, data) == [name |-> name, data |-> data]

\* entries.set(name, entry)
EntriesSet(entries, name, data) ==
  IF \E i \in 1..Len(entries) : entries[i].name = name
  THEN [i \in 1..Len(entries) |->
          IF entries[i].name = name THEN Entry(name, data) ELSE entries[i]]
  ELSE Append(entries, Entry(name, data))

\* `${asset.guid}/${kind}`
EntryName(guid, kind) == guid \o <<"/">> \o kind

\* one iteration of the loop of export
ExportAsset(entries, asset) ==
  LET e1 == EntriesSet(entries, EntryName(asset.guid, KindPathname),
                       TextEncode(asset.assetPath))
      e2 == EntriesSet(e1, EntryName(asset.guid, KindAsset), asset.assetData)
      e3 == IF asset.metaData # None
            THEN EntriesSet(e2, EntryName(asset.guid, KindMeta), asset.metaData)
            ELSE e2
  IN  IF asset.previewData # None
      THEN EntriesSet(e3, EntryName(asset.guid, KindPreview), asset.previewData)
      ELSE e3

\* the entries UnityPackage.export hands to compressTarGz; order is the
\* iteration order of the asset map
RECURSIVE ExportEntries(_, _, _)
ExportEntries(entries, as, order) ==
  IF order = <<>> THEN entries
  ELSE ExportEntries(ExportAsset(entries, as[Head(order)]), as, Tail(order))

\* the part of replaceGuidReferences applied to one byte field
RewriteField(bytes, oldGuid, newGuid) ==
  LET content == uint8ArrayToString(bytes)
  IN  IF guidPatternTest(content, oldGuid)
      THEN TextEncode(ReplaceAllGuid(content, oldGuid, newGuid))
      ELSE bytes

replaceGuidReferences_PayloadOnly(as, oldGuid, newGuid) ==
  [p \in DOMAIN as |->
     [as[p] EXCEPT !.assetData = RewriteField(@, oldGuid, newGuid)]]

\* UnityPackage.replaceGuidReferences; neither decode (non-fatal decoder)
\* nor encode throws, so the catch branches are never taken
replaceGuidReferences(as, oldGuid, newGuid) ==
  [p \in DOMAIN as |->
     [as[p] EXCEPT
        !.assetData = RewriteField(@, oldGuid, newGuid),
        !.metaData  = IF @ = None THEN None
                      ELSE RewriteField(@, oldGuid, newGuid)]]

UpdateMetaGuid_NoGuard(metaData, oldGuid, targetGuid) ==
  TextEncode(ReplaceMetaLine(
    uint8ArrayToString(IF metaData = None THEN <<>> ELSE metaData),
    oldGuid, targetGuid))

\* step 3 of replaceAssetGuid
UpdateMetaGuid(metaData, oldGuid, targetGuid) ==
  IF metaData = None THEN None
  ELSE TextEncode(ReplaceMetaLine(uint8ArrayToString(metaData), oldGuid, targetGuid))

\* the body of renameAsset once the asset is found
RenameFound(st, oldAssetPath, newAssetPath) ==
  LET asset == [st.assets[oldAssetPath] EXCEPT !.assetPath = newAssetPath]
  IN  Store(MapSet(MapDelete(st.assets, oldAssetPath), newAssetPath, asset),
            MapSet(st.guidToPath, asset.guid, newAssetPath),
            MapSet(MapDelete(st.pathToGuid, oldAssetPath), newAssetPath, asset.guid))

Outcome(st, result, target) == [store |-> st, result |-> result, target |-> target]

renameAsset_Unchecked(st, oldAssetPath, newAssetPath) ==
  IF oldAssetPath \notin DOMAIN st.assets
  THEN Outcome(st, "throw", NoGuid)
  ELSE Outcome(RenameFound(st, oldAssetPath, newAssetPath), "true", NoGuid)

\* UnityPackage.renameAsset
renameAsset(st, oldAssetPath, newAssetPath) ==
  IF oldAssetPath \notin DOMAIN st.assets
  THEN Outcome(st, "false", NoGuid)
  ELSE Outcome(RenameFound(st, oldAssetPath, newAssetPath), "true", NoGuid)

guidInUse_Never(st, targetGuid) == FALSE

\* this._guidToPath.has(targetGuid)
guidInUse(st, targetGuid) == targetGuid \in DOMAIN st.guidToPath

ReplaceFound_KeepOldKey(st, assetPath, oldGuid, targetGuid) ==
  LET updated ==
        [st.assets EXCEPT
           ![assetPath].guid = targetGuid,
           ![assetPath].metaData = UpdateMetaGuid(@, oldGuid, targetGuid)]
  IN  Store(replaceGuidReferences(updated, oldGuid, targetGuid),
            MapSet(st.guidToPath, targetGuid, assetPath),
            MapSet(st.pathToGuid, assetPath, targetGuid))

\* steps 1 to 4 of replaceAssetGuid
ReplaceFound(st, assetPath, oldGuid, targetGuid) ==
  LET updated ==
        [st.assets EXCEPT
           ![assetPath].guid = targetGuid,
           ![assetPath].metaData = UpdateMetaGuid(@, oldGuid, targetGuid)]
  IN  Store(replaceGuidReferences(updated, oldGuid, targetGuid),
            MapSet(MapDelete(st.guidToPath, oldGuid), targetGuid, assetPath),
            MapSet(st.pathToGuid, assetPath, targetGuid))

replaceAssetGuid_CollisionFirst(st, assetPath, newGuid, generated) ==
  LET targetGuid == IF newGuid # NoGuid THEN newGuid ELSE generated
  IN  IF guidInUse(st, targetGuid)
      THEN Outcome(st, "throw", targetGuid)
      ELSE IF assetPath \notin DOMAIN st.assets
      THEN Outcome(st, "false", NoGuid)
      ELSE Outcome(ReplaceFound(st, assetPath, st.assets[assetPath].guid, targetGuid),
                   "true", targetGuid)

\* UnityPackage.replaceAssetGuid; generated is the value generateNewGuid()
\* returns when newGuid is omitted (or empty)
replaceAssetGuid(st, assetPath, newGuid, generated) ==
  IF assetPath \notin DOMAIN st.assets
  THEN Outcome(st, "false", NoGuid)
  ELSE LET oldGuid == st.assets[assetPath].guid
           targetGuid == IF newGuid # NoGuid THEN newGuid ELSE generated
       IN  IF guidInUse(st, targetGuid)
           THEN Outcome(st, "throw", targetGuid)
           ELSE Outcome(ReplaceFound(st, assetPath, oldGuid, targetGuid),
                        "true", targetGuid)

----------------------------------------------------------------------------
(* Archives offered to Import *)

Ref(guid) == <<"x", ":", " ">> \o guid

\* payloads of the group `own`, the archive also holding the group `other`:
\* a reference to the other asset next to a longer hexadecimal run, the
\* asset's own GUID next to a longer run, and bytes that are not UTF-8
Payloads(own, other) ==
  { Ref(other) \o <<"\n">> \o <<"F">> \o other \o <<"\n">>,
    own \o <<"\n">> \o own \o <<"f">>,
    <<"0xFF", "\n">> \o other \o <<"\n">> }

\* sidecar and preview of the group: none, a CRLF sidecar that also refers
\* to the other asset, and an LF sidecar holding a byte that is not UTF-8
Extras(own, other) ==
  { [meta |-> None, preview |-> None],
    [meta |-> GuidLine(own) \o <<"\r", "\n">> \o Ref(other) \o <<"\r", "\n">>,
     preview |-> <<"0x89", "P", "N", "G">>],
    [meta |-> <<"0xFF", "\n">> \o GuidLine(own) \o <<"\n">> \o other,
     preview |-> None] }

Pathnames == {None, P1, P2, P1 \o <<"\n">>}

Groups(own, other) ==
  { [guid |-> own, pathname |-> pn, asset |-> pl,
     meta |-> ex.meta, preview |-> ex.preview] :
      pn \in Pathnames, pl \in {None} \cup Payloads(own, other),
      ex \in Extras(own, other) }

Archives == { <<ga, gb>> : ga \in Groups(G1, G2), gb \in Groups(G2, G1) }

----------------------------------------------------------------------------
(* The rewriter taken alone *)

RwAlphabet == {"a", "b", "F", "0", "x"}

RECURSIVE SeqsUpTo(_, _)
SeqsUpTo(S, n) ==
  IF n = 0 THEN {<<>>}
  ELSE LET shorter == SeqsUpTo(S, n - 1)
       IN  shorter \cup { Append(s, c) : s \in {t \in shorter : Len(t) = n - 1}, c \in S }

\* no call of renameAsset or replaceAssetGuid is on record
CallIdle ==
  [op |-> "none", path |-> <<>>, arg |-> NoGuid, target |-> NoGuid,
   result |-> "true", pre |-> EmptyStore]

RwIdle == [text |-> <<>>, oldGuid |-> G1, newGuid |-> G2, out |-> None]

\* the entries an archive under construction may hold
EntryPool ==
  { Entry(EntryName(G1, KindPathname), P1),
    Entry(EntryName(G1, KindPathname), <<" ">> \o P2 \o <<"\n">>),
    Entry(EntryName(G2, KindPathname), P1),
    Entry(EntryName(G1, KindAsset), <<"x">>),
    Entry(EntryName(G2, KindAsset), <<>>),
    Entry(EntryName(G1, KindMeta), <<"m">>),
    Entry(EntryName(G1, KindPreview), <<"v">>),
    Entry(EntryName(G1, KindAsset) \o <<"/", "z">>, <<"z">>),
    Entry(<<"r", "e", "a", "d", "m", "e">>, <<"r">>) }

ImpIdle == [entries |-> <<>>, out |-> EmptyStore]

----------------------------------------------------------------------------
(* gzip original name.  Bytes are numbers 0..255, the characters of a     *)
(* name are code points below 256.                                         *)

\* header.length of a gzip stream that is long enough
HeaderLength == 10

\* the name export passes: 'archtemp.tar'
ArchName == <<97, 114, 99, 104, 116, 101, 109, 112, 46, 116, 97, 114>>

Min(a, b) == IF a < b THEN a ELSE b

\* b | 0x08
OrFName(b) == IF (b \div 8) % 2 = 1 THEN b ELSE b + 8

\* new TextEncoder().encode(name), for code points below 256
RECURSIVE EncodeUtf8(_)
EncodeUtf8(name) ==
  IF name = <<>> THEN <<>>
  ELSE (IF Head(name) < 128 THEN <<Head(name)>>
        ELSE <<192 + (Head(name) \div 64), 128 + (Head(name) % 64)>>)
       \o EncodeUtf8(Tail(name))

\* new Uint8Array(length)
Zeros(length) == [thrown |-> FALSE, bytes |-> [i \in 1..length |-> 0]]

\* target.set(source, offset); a source that does not fit is a RangeError,
\* which ends the function
ArraySet(target, source, offset) ==
  IF target.thrown \/ offset + Len(source) > Len(target.bytes)
  THEN [thrown |-> TRUE, bytes |-> <<>>]
  ELSE [thrown |-> FALSE,
        bytes |-> [i \in 1..Len(target.bytes) |->
                     IF i > offset /\ i <= offset + Len(source)
                     THEN source[i - offset]
                     ELSE target.bytes[i]]]

\* dataArray after header[3] |= 0x08; header is a view of dataArray
FlagInput(dataArray) ==
  IF Len(dataArray) >= 4 THEN [dataArray EXCEPT ![4] = OrFName(@)] ELSE dataArray

addOriginalNameToGzip_NoFlag(data, name) ==
  LET header == SubSeq(data, 1, Min(10, Len(data)))
      r1 == ArraySet(Zeros(Len(data) + Len(name) + 1), header, 0)
      r2 == ArraySet(r1, EncodeUtf8(name), Len(header))
  IN  [out |-> ArraySet(r2, SubSeq(data, Len(header) + 1, Len(data)),
                        Len(header) + Len(name) + 1),
       after |-> data]

\* addOriginalNameToGzip; out is the returned buffer or the throw, after is
\* the caller's buffer when the call returns
addOriginalNameToGzip(data, name) ==
  LET dataArray == FlagInput(data)
      header == SubSeq(dataArray, 1, Min(HeaderLength, Len(dataArray)))
      r1 == ArraySet(Zeros(Len(dataArray) + Len(name) + 1), header, 0)
      r2 == ArraySet(r1, EncodeUtf8(name), Len(header))
  IN  [out |-> ArraySet(r2, SubSeq(dataArray, Len(header) + 1, Len(dataArray)),
                        Len(header) + Len(name) + 1),
       after |-> dataArray]

\* the flag bytes considered: none, FTEXT, FNAME, all but FNAME
FlagBytes == {0, 1, 8, 247}

\* a gzip stream: magic, CM, FLG, MTIME, XFL, OS, then the body
GzipStream(flg, body) == <<31, 139, 8, flg, 0, 0, 0, 0, 0, 3>> \o body

GzipStreams ==
  { GzipStream(flg, body) : flg \in FlagBytes, body \in SeqsUpTo({0, 255}, MaxBody) }

\* the buffers handed to addOriginalNameToGzip: gzip streams and cut-off ones
GzInputs ==
  GzipStreams \cup { SubSeq(GzipStream(flg, <<>>), 1, n) : flg \in FlagBytes, n \in {3, 4, 9} }

\* the names considered: "a" is 97, U+00E9 is 233
GzNames == SeqsUpTo({97, 233}, MaxName)

GzIdle ==
  [op |-> "none", data |-> <<>>, name |-> <<>>,
   out |-> [thrown |-> FALSE, bytes |-> <<>>], after |-> <<>>]

----------------------------------------------------------------------------
(* Thumbnails *)

UpperCase ==
  <<"A", "B", "C", "D", "E", "F", "G", "H", "I", "J", "K", "L", "M",
    "N", "O", "P", "Q", "R", "S", "T", "U", "V", "W", "X", "Y", "Z">>

LowerCase ==
  <<"a", "b", "c", "d", "e", "f", "g", "h", "i", "j", "k", "l", "m",
    "n", "o", "p", "q", "r", "s", "t", "u", "v", "w", "x", "y", "z">>

\* assetPath.toLowerCase()
ToLowerCase(text) ==
  [i \in 1..Len(text) |->
     IF \E k \in 1..26 : UpperCase[k] = text[i]
     THEN LowerCase[CHOOSE k \in 1..26 : UpperCase[k] = text[i]]
     ELSE text[i]]

\* text.endsWith(ext)
EndsWith(text, ext) ==
  /\ Len(text) >= Len(ext)
  /\ SubSeq(text, Len(text) - Len(ext) + 1, Len(text)) = ext

imageExtensions ==
  { <<".", "p", "n", "g">>, <<".", "j", "p", "g">>, <<".", "j", "p", "e", "g">>,
    <<".", "g", "i", "f">>, <<".", "b", "m", "p">>, <<".", "w", "e", "b", "p">> }

isImageAsset_CaseSensitive(assetPath) ==
  \E ext \in { <<".", "p", "n", "g">>, <<".", "j", "p", "g">>,
                <<".", "j", "p", "e", "g">>, <<".", "g", "i", "f">>,
                <<".", "b", "m", "p">>, <<".", "w", "e", "b", "p">> } :
    /\ Len(assetPath) >= Len(ext)
    /\ SubSeq(assetPath, Len(assetPath) - Len(ext) + 1, Len(assetPath)) = ext

\* UnityPackage.isImageAsset
isImageAsset(assetPath) ==
  \E ext \in imageExtensions : EndsWith(ToLowerCase(assetPath), ext)

\* the asset object a pending call holds is no longer in the asset map
Gone == None

\* generateSquareThumbnail rejects
Failed == <<"Error">>

\* what generateSquareThumbnail may resolve to
Thumbnails == { <<"0x89", "t">> }

\* what the generator of a second, overlapping call may resolve to
SecondThumbnails == { <<"0x89", "u">> }

\* a second call of refreshThumbnail that overlaps the first
SecondIdle == [phase |-> "idle", at |-> Gone, generated |-> None]

\* moved: renameAsset or replaceAssetGuid has acted on the asset of the
\* pending call; last: the call whose assignment of the preview ran last
ThumbIdle ==
  [phase |-> "idle", path |-> <<>>, stored |-> FALSE, at |-> Gone,
   error |-> "none", called |-> FALSE, generated |-> None, pre |-> EmptyStore,
   moved |-> FALSE, second |-> SecondIdle, last |-> 0, moves |-> 0]

\* refreshThumbnail up to its await: the two checks and the call of
\* generateSquareThumbnail
refreshThumbnailCall(st, assetPath) ==
  LET th == [ThumbIdle EXCEPT !.path = assetPath,
                              !.stored = assetPath \in DOMAIN st.assets]
  IN  IF assetPath \notin DOMAIN st.assets
      THEN [th EXCEPT !.phase = "rejected", !.error = "not-found", !.pre = st]
      ELSE IF ~isImageAsset(assetPath)
      THEN [th EXCEPT !.phase = "rejected", !.error = "not-image", !.pre = st]
      ELSE [th EXCEPT !.phase = "pending", !.at = assetPath, !.called = TRUE]

\* asset.previewData = <the awaited value>; asset is the object read
\* before the await
AssignPreview(as, at, previewData) ==
  IF at = Gone THEN as ELSE [as EXCEPT ![at].previewData = previewData]

\* where the asset object stored at `at` is after renameAsset
AssetAfterRename(at, st, oldAssetPath, newAssetPath) ==
  IF oldAssetPath \notin DOMAIN st.assets THEN at
  ELSE IF oldAssetPath = at THEN newAssetPath
  ELSE IF newAssetPath = at THEN Gone
  ELSE at

\* the record of a call that has settled is dropped by the next operation
\* of the store; a pending second call stays
SettledThumb(th) ==
  IF th.second.phase = "pending" THEN [ThumbIdle EXCEPT !.second = th.second] ELSE ThumbIdle

\* the asset variable of a pending refreshThumbnail after renameAsset
ThumbAfterRename(th, st, oldAssetPath, newAssetPath) ==
  LET tracked == [th EXCEPT !.second.at = AssetAfterRename(@, st, oldAssetPath, newAssetPath)]
  IN  IF th.phase # "pending" THEN SettledThumb(tracked)
      ELSE [tracked EXCEPT
              !.at = AssetAfterRename(@, st, oldAssetPath, newAssetPath),
              !.moved = @ \/ (oldAssetPath \in DOMAIN st.assets /\ oldAssetPath = th.at)]

\* replaceAssetGuid updates the asset objects in place
ThumbAfterReplace(th, assetPath, result) ==
  IF th.phase # "pending" THEN SettledThumb(th)
  ELSE [th EXCEPT !.moved = @ \/ (result = "true" /\ assetPath = th.at)]

\* the archives a package with thumbnails is imported from
ThumbArchives ==
  { ar \in Archives :
      /\ ar[1].pathname = P1
      /\ ar[1].asset = <<"0xFF", "\n">> \o G2 \o <<"\n">>
      /\ ar[2].pathname \in {None, P2}
      /\ ar[2].asset = <<"0xFF", "\n">> \o G1 \o <<"\n">>
      /\ ar[2].meta = None }

\* archives with fields that start with a byte-order mark: payloads with
\* and without a reference to the other asset, sidecars with and without
\* the line of the own GUID
BomPayloads(other) ==
  { <<"EFBBBF">> \o Ref(other) \o <<"\n">>, <<"EFBBBF", "x", "\n">>, <<"x", "\n">> }

BomMetas(own) ==
  { None, <<"EFBBBF">> \o GuidLine(own) \o <<"\n">>, <<"EFBBBF", "x", "\n">> }

BomArchives ==
  { << [guid |-> G1, pathname |-> P1, asset |-> pa, meta |-> ma, preview |-> None],
       [guid |-> G2, pathname |-> P2, asset |-> pb, meta |-> mb, preview |-> None] >> :
      pa \in BomPayloads(G2), ma \in BomMetas(G1),
      pb \in BomPayloads(G1) \ {<<"EFBBBF", "x", "\n">>}, mb \in BomMetas(G2) \ {None} }

----------------------------------------------------------------------------
(* Curve editor.  A text is a record: s is its sequence of units, d the    *)
(* data that a "DATA" unit of s stands for (the serialized fields of the   *)
(* clip other than m_Name; the YAML serializer is taken to be faithful).   *)
(* Times are counted in units of 0.0005.  The fields weightedMode,         *)
(* inWeight and outWeight of a keyframe are carried like tangentMode and   *)
(* are left out.                                                           *)

\* 0.001, in units of 0.0005
Tolerance == 2

\* JavaScript values of the slope fields
Num(n) == [type |-> "number", n |-> n, s |-> ""]

Infinity == [type |-> "number", n |-> 0, s |-> "Infinity"]

NegInfinity == [type |-> "number", n |-> 0, s |-> "-Infinity"]

Str(s) == [type |-> "string", n |-> 0, s |-> s]

Keyframe(time, value, inSlope, outSlope, tangentMode) ==
  [time |-> time, value |-> value, inSlope |-> inSlope, outSlope |-> outSlope,
   tangentMode |-> tangentMode]

FloatCurve(attribute, path, classID, keyframes) ==
  [attribute |-> attribute, path |-> path, classID |-> classID, keyframes |-> keyframes]

\* UnityAnimation.parseNumericValue
parseNumericValue(value) ==
  IF value.type = "number" THEN value
  ELSE IF value = Str("Infinity") THEN Infinity
  ELSE IF value = Str("-Infinity") THEN NegInfinity
  ELSE Num(0)

\* UnityAnimation.parseFloatCurvesFromParsed
parseFloatCurvesFromParsed(floatCurvesData) ==
  [i \in 1..Len(floatCurvesData) |->
     LET parsed == floatCurvesData[i]
     IN  FloatCurve(parsed.attribute, parsed.path, parsed.classID,
           [k \in 1..Len(parsed.m_Curve) |->
              LET kf == parsed.m_Curve[k]
              IN  Keyframe(kf.time, kf.value, parseNumericValue(kf.inSlope),
                           parseNumericValue(kf.outSlope), kf.tangentMode)])]

\* kf.inSlope === Infinity ? 'Infinity' : kf.inSlope
SlopeData(slope) == IF slope = Infinity THEN Str("Infinity") ELSE slope

\* the m_Curve list built from the keyframes of a curve
CurveData(keyframes) ==
  [k \in 1..Len(keyframes) |->
     Keyframe(keyframes[k].time, keyframes[k].value, SlopeData(keyframes[k].inSlope),
              SlopeData(keyframes[k].outSlope), keyframes[k].tangentMode)]

\* UnityAnimation.buildFloatCurvesData
buildFloatCurvesData(curves) ==
  [i \in 1..Len(curves) |->
     [attribute |-> curves[i].attribute, path |-> curves[i].path,
      classID |-> curves[i].classID, m_Curve |-> CurveData(curves[i].keyframes)]]

\* UnityAnimation.syncEditorCurves
syncEditorCurves(parsed, curves) ==
  [parsed EXCEPT !.m_EditorCurves = buildFloatCurvesData(curves)]

updateClipBindingConstant_KeepBaseline(parsed, curves) ==
  [parsed EXCEPT !.genericBindings =
     @ \o [i \in 1..Len(curves) |->
             [path |-> curves[i].path, attribute |-> curves[i].attribute,
              typeID |-> curves[i].classID]]]

\* UnityAnimation.updateClipBindingConstant
updateClipBindingConstant(parsed, curves) ==
  [parsed EXCEPT !.genericBindings =
     [i \in 1..Len(curves) |->
        [path |-> curves[i].path, attribute |-> curves[i].attribute,
         typeID |-> curves[i].classID]]]

\* the times of all keyframes of all curves
AllTimes(curves) ==
  UNION { { curves[i].keyframes[k].time : k \in 1..Len(curves[i].keyframes) } :
            i \in 1..Len(curves) }

\* the time Infinity: a number above every other time; its negative is
\* the time -Infinity
InfinityTime == 1000

\* Math.min and Math.max over a start value and a set of times
MathMin(start, times) == CHOOSE t \in times \cup {start} : \A u \in times \cup {start} : t <= u

MathMax(start, times) == CHOOSE t \in times \cup {start} : \A u \in times \cup {start} : t >= u

\* UnityAnimation.updateAnimationClipSettings; an absent time is <<>>
updateAnimationClipSettings(parsed, curves) ==
  LET minTime == MathMin(InfinityTime, AllTimes(curves))
      maxTime == MathMax(0 - InfinityTime, AllTimes(curves))
  IN  IF minTime # InfinityTime /\ maxTime # 0 - InfinityTime
      THEN [parsed EXCEPT !.m_StartTime = <<minTime>>, !.m_StopTime = <<maxTime>>]
      ELSE parsed

\* \s of the regular expressions
IsSpace(unit) == unit \in {" ", "\n", "\t", "\r"}

ClipTag == "AnimationClip:"

HasClipTag(s) == \E i \in 1..Len(s) : s[i] = ClipTag

\* where /AnimationClip:[\s\S]*?(?=\n\S|$)/ matches: at the first tag
MatchStart(s) == CHOOSE i \in 1..Len(s) : s[i] = ClipTag /\ \A k \in 1..(i - 1) : s[k] # ClipTag

\* the position after the match: the first one followed by a line break
\* and a character that is not white space, else the end of the text
MatchEnd(s) ==
  LET stops == { j \in (MatchStart(s) + 1)..Len(s) :
                   s[j] = "\n" /\ j < Len(s) /\ ~IsSpace(s[j + 1]) }
  IN  IF stops = {} THEN Len(s) + 1
      ELSE CHOOSE j \in stops : \A k \in stops : j <= k

\* the replacement text of String.prototype.replace with the patterns
\* $$, $&, $` and $' expanded; the pattern has no capture group
RECURSIVE GetSubstitution(_, _, _, _)
GetSubstitution(replacement, matched, before, after) ==
  IF replacement = <<>> THEN <<>>
  ELSE IF Head(replacement) = "$" /\ Len(replacement) >= 2
            /\ replacement[2] \in {"$", "&", "`", "'"}
  THEN (CASE replacement[2] = "$" -> <<"$">>
          [] replacement[2] = "&" -> matched
          [] replacement[2] = "`" -> before
          [] replacement[2] = "'" -> after)
       \o GetSubstitution(SubSeq(replacement, 3, Len(replacement)), matched, before, after)
  ELSE <<Head(replacement)>> \o GetSubstitution(Tail(replacement), matched, before, after)

ReplaceClip_ToEnd(s, replacement) ==
  LET first == CHOOSE i \in 1..Len(s) :
                 s[i] = "AnimationClip:" /\ \A k \in 1..(i - 1) : s[k] # "AnimationClip:"
  IN  SubSeq(s, 1, first - 1) \o replacement

\* this._originalYaml.replace(/AnimationClip:[\s\S]*?(?=\n\S|$)/, replacement)
ReplaceClip(s, replacement) ==
  LET before == SubSeq(s, 1, MatchStart(s) - 1)
      matched == SubSeq(s, MatchStart(s), MatchEnd(s) - 1)
      after == SubSeq(s, MatchEnd(s), Len(s))
  IN  before \o GetSubstitution(replacement, matched, before, after) \o after

\* yaml.dump(updatedData): the name line and the line of the other fields
Dump(name) == <<"m_Name: ">> \o name \o <<"\n", "DATA", "\n">>

\* .split('\n').map((line) => (line ? '  ' + line : line)).join('\n')
RECURSIVE Indent(_, _)
Indent(s, lineStart) ==
  IF s = <<>> THEN <<>>
  ELSE (IF lineStart /\ Head(s) # "\n" THEN <<" ", " ", Head(s)>> ELSE <<Head(s)>>)
       \o Indent(Tail(s), Head(s) = "\n")

\* the lines of a text
RECURSIVE Lines(_)
Lines(s) ==
  IF \A i \in 1..Len(s) : s[i] # "\n" THEN <<s>>
  ELSE LET i == CHOOSE j \in 1..Len(s) : s[j] = "\n" /\ \A k \in 1..(j - 1) : s[k] # "\n"
       IN  <<SubSeq(s, 1, i - 1)>> \o Lines(SubSeq(s, i + 1, Len(s)))

RECURSIVE Unindent(_)
Unindent(line) == IF line # <<>> /\ Head(line) = " " THEN Unindent(Tail(line)) ELSE line

IsNameLine(line) == line # <<>> /\ Head(line) = "m_Name: "

IsDataLine(line) == line = <<"DATA">>

\* the lines of the block that are not blank, without their indentation
FieldLines(block) ==
  SelectSeq([i \in 1..Len(Lines(block)) |-> Unindent(Lines(block)[i])],
            LAMBDA line : line # <<>>)

\* what yaml.load(animationClipYaml) returns: undefined for a block without
\* content, the number for the block 5, a mapping for a block of fields
\* with no field twice; the loader throws a YAMLException for a duplicated
\* key and for any other line, such as the unclosed [
Loaded(block) ==
  LET lines == FieldLines(block)
  IN  IF lines = <<>> THEN "undefined"
      ELSE IF lines = << <<"5">> >> THEN "number"
      ELSE IF /\ \A i \in 1..Len(lines) : IsNameLine(lines[i]) \/ IsDataLine(lines[i])
              /\ Len(SelectSeq(lines, IsNameLine)) <= 1
              /\ Len(SelectSeq(lines, IsDataLine)) <= 1
      THEN "mapping"
      ELSE "YAMLException"

\* neither yaml.load nor the read of parsed.m_Name throws: { ...parsed }
\* takes undefined and a number, parsed.m_Name is undefined for a number
\* and throws a TypeError for undefined
Loadable(block) == Loaded(block) \in {"mapping", "number"}

\* parsed.m_Name || ''
LoadedName(block) ==
  LET named == SelectSeq(FieldLines(block), IsNameLine)
  IN  IF named = <<>> THEN <<>> ELSE Tail(named[Len(named)])

NoData ==
  [m_FloatCurves |-> <<>>, m_EditorCurves |-> <<>>, genericBindings |-> <<>>,
   pptrCurveMapping |-> <<>>, m_StartTime |-> <<>>, m_StopTime |-> <<>>,
   m_LoopTime |-> <<>>, m_SampleRate |-> <<>>]

LoadedData(block, d) ==
  IF \E i \in 1..Len(FieldLines(block)) : IsDataLine(FieldLines(block)[i]) THEN d ELSE NoData

Text(s, d) == [s |-> s, d |-> d]

NoEditor ==
  [originalYaml |-> Text(<<>>, NoData), name |-> <<>>, curves |-> <<>>, parsed |-> NoData]

\* new UnityAnimation(yamlContent): constructor and parseNameAndCurves
UnityAnimation(yamlContent) ==
  IF ~HasClipTag(yamlContent.s)
  THEN [thrown |-> TRUE, error |-> "AnimationClip not found in YAML", editor |-> NoEditor]
  ELSE LET block == SubSeq(yamlContent.s, MatchStart(yamlContent.s) + 1,
                           MatchEnd(yamlContent.s) - 1)
           parsed == LoadedData(block, yamlContent.d)
       IN  IF ~Loadable(block)
           THEN [thrown |-> TRUE,
                 error |-> (IF Loaded(block) = "undefined" THEN "TypeError"
                            ELSE "YAMLException"),
                 editor |-> NoEditor]
           ELSE [thrown |-> FALSE, error |-> "",
                 editor |-> [originalYaml |-> yamlContent,
                             name |-> LoadedName(block),
                             curves |-> parseFloatCurvesFromParsed(parsed.m_FloatCurves),
                             parsed |-> parsed]]

\* UnityAnimation.setName
setName(ed, name) == [ed EXCEPT !.name = name]

\* the index of the curve UnityAnimation.getCurve finds, 0 for undefined
getCurve(curves, attribute, path) ==
  IF \E i \in 1..Len(curves) : curves[i].attribute = attribute /\ curves[i].path = path
  THEN CHOOSE i \in 1..Len(curves) :
         /\ curves[i].attribute = attribute /\ curves[i].path = path
         /\ \A k \in 1..(i - 1) : ~(curves[k].attribute = attribute /\ curves[k].path = path)
  ELSE 0

addCurve_AlwaysPush(ed, curve) == [ed EXCEPT !.curves = Append(@, curve)]

\* UnityAnimation.addCurve
addCurve(ed, curve) ==
  LET existing == getCurve(ed.curves, curve.attribute, curve.path)
  IN  IF existing # 0
      THEN [ed EXCEPT !.curves[existing].keyframes = curve.keyframes]
      ELSE [ed EXCEPT !.curves = Append(@, curve)]

\* UnityAnimation.removeCurve
removeCurve(ed, attribute, path) ==
  [ed EXCEPT !.curves =
     SelectSeq(@, LAMBDA c : ~(c.attribute = attribute /\ c.path = path))]

\* one step of the stable sort: keyframe goes behind the last element
\* whose time is not greater
RECURSIVE InsertByTime(_, _)
InsertByTime(sorted, keyframe) ==
  IF sorted = <<>> THEN <<keyframe>>
  ELSE IF sorted[Len(sorted)].time - keyframe.time > 0
  THEN Append(InsertByTime(SubSeq(sorted, 1, Len(sorted) - 1), keyframe),
              sorted[Len(sorted)])
  ELSE Append(sorted, keyframe)

\* keyframes.sort((a, b) => a.time - b.time); Array.prototype.sort is stable
RECURSIVE SortByTime(_)
SortByTime(keyframes) ==
  IF keyframes = <<>> THEN <<>>
  ELSE InsertByTime(SortByTime(SubSeq(keyframes, 1, Len(keyframes) - 1)),
                    keyframes[Len(keyframes)])

\* UnityAnimation.addKeyframe
addKeyframe(ed, attribute, path, keyframe) ==
  LET curve == getCurve(ed.curves, attribute, path)
  IN  IF curve # 0
      THEN [ed EXCEPT !.curves[curve].keyframes = SortByTime(Append(@, keyframe))]
      ELSE ed

\* Math.abs
MathAbs(x) == IF x < 0 THEN 0 - x ELSE x

removeKeyframe_Exclusive(ed, attribute, path, time) ==
  LET curve == getCurve(ed.curves, attribute, path)
  IN  IF curve # 0
      THEN [ed EXCEPT !.curves[curve].keyframes =
              SelectSeq(@, LAMBDA k :
                (IF k.time - time < 0 THEN time - k.time ELSE k.time - time) >= 2)]
      ELSE ed

\* UnityAnimation.removeKeyframe
removeKeyframe(ed, attribute, path, time) ==
  LET curve == getCurve(ed.curves, attribute, path)
  IN  IF curve # 0
      THEN [ed EXCEPT !.curves[curve].keyframes =
              SelectSeq(@, LAMBDA k : MathAbs(k.time - time) > Tolerance)]
      ELSE ed

\* UnityAnimation.exportToYaml and rebuildYaml: the editor afterwards and
\* the returned text
exportToYaml(ed) ==
  LET synced == updateAnimationClipSettings(
                  updateClipBindingConstant(
                    syncEditorCurves(ed.parsed, ed.curves), ed.curves), ed.curves)
      updatedData == [synced EXCEPT !.m_FloatCurves = buildFloatCurvesData(ed.curves)]
      indentedNewYaml == Indent(Dump(ed.name), TRUE)
  IN  [editor |-> [ed EXCEPT !.parsed = synced],
       text |-> Text(ReplaceClip(ed.originalYaml.s, <<ClipTag, "\n">> \o indentedNewYaml),
                     updatedData)]

\* keyframes of the documents and of the calls: times 0, 0.001 and 0.001
KA == Keyframe(0, 0, Num(0), Num(0), 0)

KB == Keyframe(2, 1, Infinity, NegInfinity, 136)

KC == Keyframe(2, 0, Num(1), Num(1), 0)

\* a keyframe at the time Infinity
KI == Keyframe(InfinityTime, 0, Num(0), Num(0), 0)

Keyframes == {KA, KB, KC}

\* keyframe lists handed to addCurve; the third is not sorted by time
KeyframeLists == { <<>>, <<KA, KB>>, <<KC, KA>>, <<KI>> }

\* (attribute, path) of the curves of the calls
CurveKeys == { <<"x", "b">>, <<"x", "c">> }

\* names handed to setName: a, $$ and $'
Names == { <<"a">>, <<"$", "$">>, <<"$", "'">> }

\* times handed to removeKeyframe: 0, 0.002 and 0.0025
Times == {0, 4, 5}

\* the documents an editor is constructed from; their curves are sorted,
\* slopes are written as numbers or as the strings Infinity, -Infinity, x
\* the classID of the curves handed to addCurve
NewClassID == 1

Document(before, after, d) ==
  Text(before \o <<ClipTag, "\n", " ", " ", "m_Name: ", "a", "\n", " ", " ", "DATA">>
         \o after, d)

Documents ==
  { Document(<<>>, <<>>, [NoData EXCEPT !.pptrCurveMapping = <<"ref">>]),
    Document(<<"%", "\n">>, <<"\n", "-", "\n">>,
      [NoData EXCEPT
         !.m_FloatCurves =
            << [attribute |-> "x", path |-> "b", classID |-> 23,
                m_Curve |-> << Keyframe(0, 0, Str("Infinity"), Str("-Infinity"), 136),
                               Keyframe(2, 1, Str("x"), Num(0), 0) >>] >>,
         !.m_EditorCurves =
            << [attribute |-> "y", path |-> "gone", classID |-> 9, m_Curve |-> <<>>] >>,
         !.genericBindings =
            << [path |-> "b", attribute |-> "x", typeID |-> 23],
               [path |-> "gone", attribute |-> "y", typeID |-> 9] >>,
         !.pptrCurveMapping = <<"ref">>,
         !.m_StartTime = <<0>>, !.m_StopTime = <<9>>,
         !.m_LoopTime = <<1>>, !.m_SampleRate = <<60>>]) }

\* texts the constructor does not make an editor of, and a text whose
\* block is the number 5
OtherDocuments ==
  { Text(<<>>, NoData),
    Text(<<"%", "\n", "m_Name: ", "a">>, NoData),
    Text(<<ClipTag>>, NoData),
    Text(<<"%", "\n", ClipTag, "\n", "-">>, NoData),
    Text(<<ClipTag, "\n", " ", " ", "[">>, NoData),
    Text(<<ClipTag, " ", "5">>, NoData) }

AnimIdle == NoEditor

AcallIdle ==
  [op |-> "none", attribute |-> "", path |-> "", keyframes |-> <<>>, time |-> 0,
   name |-> <<>>, pre |-> NoEditor, text |-> Text(<<>>, NoData), calls |-> 0,
   thrown |-> FALSE, error |-> ""]

----------------------------------------------------------------------------
(* Component editor (UnityPrefab).  A document is a sequence of units: a   *)
(* line break, a blank, the separator ---, the header of a document        *)
(* (!u!<type> &<fileID>), the tag MonoBehaviour:, a key word, the colon    *)
(* and the units of a value.                                               *)

\* the headers !u!(\d+) &(\d+) of the documents, with type and fileID
HeaderUnits == {"!u!114 &1", "!u!114 &2", "!u!1 &3"}

UnityType(unit) == IF unit = "!u!1 &3" THEN "1" ELSE "114"

FileId(unit) == IF unit = "!u!114 &1" THEN "1" ELSE IF unit = "!u!114 &2" THEN "2" ELSE "3"

\* the values {fileID: 11500000, guid: <guid>, type: 3} and their guid
ScriptRefs == {"{fileID: 11500000, guid: aa, type: 3}", "{fileID: 11500000, guid: bb, type: 3}"}

ScriptGuidOf(unit) == IF unit = "{fileID: 11500000, guid: aa, type: 3}" THEN "aa" ELSE "bb"

MonoTag == "MonoBehaviour:"

\* \w+
IsWord(unit) == unit \in {"m_Script", "k", "j", "n", "x"}

\* ^ with the flag m
IsLineStart(s, p) == p = 1 \/ s[p - 1] = "\n"

\* /^---\s/m matches at i
SeparatorAt(s, i) == s[i] = "---" /\ IsLineStart(s, i) /\ i < Len(s) /\ IsSpace(s[i + 1])

\* yamlContent.split(/^---\s/m): the piece begun at start, the search at i
RECURSIVE SplitAt(_, _, _)
SplitAt(s, start, i) ==
  IF i > Len(s) THEN <<SubSeq(s, start, Len(s))>>
  ELSE IF SeparatorAt(s, i)
  THEN <<SubSeq(s, start, i - 1)>> \o SplitAt(s, i + 2, i + 2)
  ELSE SplitAt(s, start, i + 1)

\* String.prototype.trim on units
RECURSIVE TrimUnits(_)
TrimUnits(s) ==
  IF s = <<>> THEN s
  ELSE IF IsSpace(Head(s)) THEN TrimUnits(Tail(s))
  ELSE IF IsSpace(s[Len(s)]) THEN TrimUnits(SubSeq(s, 1, Len(s) - 1))
  ELSE s

\* the first match of /m_Script: \{fileID: \d+, guid: ([a-f0-9A-F]+), type: 3\}/;
\* an absent scriptGuid is <<>>
ScriptGuid(content) ==
  LET found == { i \in 1..(Len(content) - 3) :
                   /\ content[i] = "m_Script" /\ content[i + 1] = ":"
                   /\ content[i + 2] = " " /\ content[i + 3] \in ScriptRefs }
  IN  IF found = {} THEN <<>>
      ELSE <<ScriptGuidOf(content[(CHOOSE i \in found : \A k \in found : i <= k) + 3])>>

\* line.match(/^ {2}(\w+): (.+)$/)
IsPropertyLine(line) ==
  /\ Len(line) >= 6
  /\ line[1] = " " /\ line[2] = " " /\ IsWord(line[3]) /\ line[4] = ":" /\ line[5] = " "

\* the loop over the lines in parseMonoBehaviourComponent
RECURSIVE Properties(_, _, _)
Properties(lines, insideMonoBehaviour, properties) ==
  IF lines = <<>> THEN properties
  ELSE LET line == Head(lines)
       IN  IF \E i \in 1..Len(line) : line[i] = MonoTag
           THEN Properties(Tail(lines), TRUE, properties)
           ELSE IF insideMonoBehaviour /\ IsPropertyLine(line)
           THEN Properties(Tail(lines), insideMonoBehaviour,
                           MapSet(properties, line[3], TrimUnits(SubSeq(line, 6, Len(line)))))
           ELSE Properties(Tail(lines), insideMonoBehaviour, properties)

\* UnityPrefab.parseMonoBehaviourComponent
parseMonoBehaviourComponent(fileId, unityType, content, rawYaml) ==
  [fileId |-> fileId, unityType |-> unityType, scriptGuid |-> ScriptGuid(content),
   properties |-> Properties(Lines(content), FALSE, EmptyMap), rawYaml |-> rawYaml]

\* doc.match(/^!u!(\d+) &(\d+)\r?\n([\s\S]*)/) with the type 114 and a
\* content that includes MonoBehaviour:
IsMonoBehaviourDocument(doc) ==
  /\ Len(doc) >= 2 /\ doc[1] \in HeaderUnits /\ doc[2] = "\n"
  /\ UnityType(doc[1]) = "114"
  /\ \E i \in 3..Len(doc) : doc[i] = MonoTag

\* UnityPrefab.parsePrefabComponents
parsePrefabComponents(yamlContent) ==
  LET documents == SelectSeq(SplitAt(yamlContent, 1, 1),
                             LAMBDA doc : TrimUnits(doc) # <<>>)
      found == SelectSeq(documents, IsMonoBehaviourDocument)
  IN  [i \in 1..Len(found) |->
         parseMonoBehaviourComponent(FileId(found[i][1]), UnityType(found[i][1]),
                                     SubSeq(found[i], 3, Len(found[i])), found[i])]

\* where new RegExp(`^(\\s+${key}:)\\s*(.*)$`, 'gm') can start: at a line
\* start followed by white space only, line breaks included, up to the key
PropertyStarts(s, key) ==
  { p \in 1..Len(s) :
      /\ IsLineStart(s, p)
      /\ \E q \in (p + 1)..(Len(s) - 1) :
           /\ \A k \in p..(q - 1) : IsSpace(s[k])
           /\ s[q] = key /\ s[q + 1] = ":" }

\* propertyPattern.exec(updatedYaml): whether there is a match, its start,
\* the end of match[1] and the end of the match.  \s* takes the white space
\* behind the colon, line breaks included; (.*) takes the rest of the line
\* it stops in
PropertyExec(s, key) ==
  IF PropertyStarts(s, key) = {} THEN [found |-> FALSE, start |-> 0, colon |-> 0, stop |-> 0]
  ELSE LET p == CHOOSE i \in PropertyStarts(s, key) : \A k \in PropertyStarts(s, key) : i <= k
           q == CHOOSE i \in (p + 1)..Len(s) : ~IsSpace(s[i]) /\ \A k \in p..(i - 1) : IsSpace(s[k])
           rs == { i \in (q + 2)..Len(s) : ~IsSpace(s[i]) }
           r == IF rs = {} THEN Len(s) + 1 ELSE CHOOSE i \in rs : \A k \in rs : i <= k
           es == { i \in r..Len(s) : s[i] = "\n" }
           e == IF es = {} THEN Len(s) + 1 ELSE CHOOSE i \in es : \A k \in es : i <= k
       IN  [found |-> TRUE, start |-> p, colon |-> q + 1, stop |-> e - 1]

\* the positions where pattern occurs in s
Occurrences(s, pattern) ==
  { i \in 1..(Len(s) - Len(pattern) + 1) : SubSeq(s, i, i + Len(pattern) - 1) = pattern }

\* s.replace(pattern, replacement) with a string pattern: the first
\* occurrence is replaced, the $ patterns of the replacement are expanded
StringReplace(s, pattern, replacement) ==
  IF Occurrences(s, pattern) = {} THEN s
  ELSE LET i == CHOOSE j \in Occurrences(s, pattern) : \A k \in Occurrences(s, pattern) : j <= k
           before == SubSeq(s, 1, i - 1)
           after == SubSeq(s, i + Len(pattern), Len(s))
       IN  before \o GetSubstitution(replacement, pattern, before, after) \o after

\* UnityPrefab.updateYamlProperties; newProperties is the sequence of the
\* (key, value) pairs in the order of for ... in
RECURSIVE updateYamlProperties(_, _)
updateYamlProperties(yamlContent, newProperties) ==
  IF newProperties = <<>> THEN yamlContent
  ELSE LET key == Head(newProperties)[1]
           match == PropertyExec(yamlContent, key)
           oldPropertyLine == SubSeq(yamlContent, match.start, match.stop)
           newPropertyLine == SubSeq(yamlContent, match.start, match.colon)
                                \o <<" ">> \o Head(newProperties)[2]
       IN  IF ~match.found THEN updateYamlProperties(yamlContent, Tail(newProperties))
           ELSE updateYamlProperties(StringReplace(yamlContent, oldPropertyLine, newPropertyLine),
                                     Tail(newProperties))

\* the loop of UnityPrefab.updateComponentProperties over the components
\* found before the first replacement
RECURSIVE UpdateComponents(_, _, _, _)
UpdateComponents(originalYaml, components, targetScriptGuid, newProperties) ==
  IF components = <<>> THEN originalYaml
  ELSE LET component == Head(components)
       IN  IF component.scriptGuid # <<targetScriptGuid>>
           THEN UpdateComponents(originalYaml, Tail(components), targetScriptGuid, newProperties)
           ELSE UpdateComponents(
                  StringReplace(originalYaml, component.rawYaml,
                                updateYamlProperties(component.rawYaml, newProperties)),
                  Tail(components), targetScriptGuid, newProperties)

\* UnityPrefab.updateComponentProperties
updateComponentProperties(originalYaml, targetScriptGuid, newProperties) ==
  UpdateComponents(originalYaml, parsePrefabComponents(originalYaml), targetScriptGuid,
                   newProperties)

\* a line of a component: indentation, key, colon and value
PropertyLine(indent, key, value) ==
  [i \in 1..indent |-> " "] \o <<key, ":">>
    \o (IF value = <<>> THEN <<>> ELSE <<" ">> \o value) \o <<"\n">>

\* the document of a MonoBehaviour with a script
Component(header, scriptRef, body) ==
  <<"---", " ", header, "\n", MonoTag, "\n">> \o PropertyLine(2, "m_Script", <<scriptRef>>) \o body

RefA == "{fileID: 11500000, guid: aa, type: 3}"

RefB == "{fileID: 11500000, guid: bb, type: 3}"

\* the prefabs: two components of two scripts and a GameObject; a component
\* with a key without value; a component with a nested key of the same name;
\* two components of one script
PrefabDocuments ==
  { <<"%", "\n">> \o Component("!u!114 &1", RefA, PropertyLine(2, "k", <<"0">>))
      \o <<"---", " ", "!u!1 &3", "\n", "x", ":", "\n">>
      \o Component("!u!114 &2", RefB, PropertyLine(2, "k", <<"0">>) \o PropertyLine(2, "j", <<"0">>)),
    Component("!u!114 &1", RefA, PropertyLine(2, "k", <<>>) \o PropertyLine(2, "j", <<"0">>)),
    Component("!u!114 &1", RefA,
              PropertyLine(2, "n", <<>>) \o PropertyLine(4, "k", <<"0">>)
                \o PropertyLine(2, "k", <<"0">>)),
    Component("!u!114 &1", RefA, PropertyLine(2, "k", <<"0">>))
      \o Component("!u!114 &2", RefA, PropertyLine(2, "k", <<"1">>)) }

\* the property maps and the script GUIDs of the calls
PropertyMaps ==
  { << <<"k", <<"1">>>> >>,
    << <<"j", <<"1">>>>, <<"k", <<"2">>>> >>,
    << <<"x", <<"1">>>> >> }

ScriptGuids == {"aa", "bb", "cc"}

PrefabIdle == <<>>

PcallIdle == [op |-> "none", targetScriptGuid |-> "", newProperties |-> <<>>, pre |-> <<>>, calls |-> 0]

----------------------------------------------------------------------------
(* Operations *)

Init ==
  /\ \E groups \in Archives :
       LET st == fromArrayBuffer(groups)
       IN  /\ assets = st.assets
           /\ guidToPath = st.guidToPath
           /\ pathToGuid = st.pathToGuid
  /\ call = [op |-> "import", path |-> <<>>, arg |-> NoGuid, target |-> NoGuid,
             result |-> "true", pre |-> EmptyStore]
  /\ rw = RwIdle
  /\ imp = ImpIdle
  /\ gz = GzIdle
  /\ thumb = ThumbIdle
  /\ anim = AnimIdle
  /\ acall = AcallIdle
  /\ prefab = PrefabIdle
  /\ pcall = PcallIdle

\* the store and the record of the call after a call with outcome o
Return(op, path, arg, o) ==
  /\ assets' = o.store.assets
  /\ guidToPath' = o.store.guidToPath
  /\ pathToGuid' = o.store.pathToGuid
  /\ call' = [op |-> op, path |-> path, arg |-> arg, target |-> o.target,
              result |-> o.result, pre |-> CurrentStore]

Rename ==
  /\ \E oldAssetPath \in Paths, newAssetPath \in Paths :
       /\ Return("renameAsset", oldAssetPath, newAssetPath,
                 renameAsset(CurrentStore, oldAssetPath, newAssetPath))
       /\ thumb' = ThumbAfterRename(thumb, CurrentStore, oldAssetPath, newAssetPath)
  /\ UNCHANGED <<rw, imp, gz, anim, acall, prefab, pcall>>

ReplaceGuid ==
  /\ \E assetPath \in Paths, newGuid \in Guids \cup {NoGuid} :
       \E draws \in (IF newGuid = NoGuid THEN Draws ELSE {<<>>}) :
         LET o == replaceAssetGuid(CurrentStore, assetPath, newGuid,
                    IF newGuid = NoGuid THEN generateNewGuid(draws) ELSE NoGuid)
         IN  /\ Return("replaceAssetGuid", assetPath, newGuid, o)
             /\ thumb' = ThumbAfterReplace(thumb, assetPath, o.result)
  /\ UNCHANGED <<rw, imp, gz, anim, acall, prefab, pcall>>

Next == Rename \/ ReplaceGuid

Spec == Init /\ [][Next]_vars

----------------------------------------------------------------------------

InitRW ==
  /\ assets = EmptyMap
  /\ guidToPath = EmptyMap
  /\ pathToGuid = EmptyMap
  /\ call = [op |-> "none", path |-> <<>>, arg |-> NoGuid, target |-> NoGuid,
             result |-> "true", pre |-> EmptyStore]
  /\ \E text \in SeqsUpTo(RwAlphabet, MaxLen), oldGuid \in Guids :
       \E newGuid \in Guids \ {oldGuid} :
         rw = [text |-> text, oldGuid |-> oldGuid, newGuid |-> newGuid, out |-> None]
  /\ imp = ImpIdle
  /\ gz = GzIdle
  /\ thumb = ThumbIdle
  /\ anim = AnimIdle
  /\ acall = AcallIdle
  /\ prefab = PrefabIdle
  /\ pcall = PcallIdle

RwReplace ==
  /\ rw.out = None
  /\ rw' = [rw EXCEPT !.out = ReplaceAllGuid(rw.text, rw.oldGuid, rw.newGuid)]
  /\ UNCHANGED <<storeVars, imp, gz, thumb, anim, acall, prefab, pcall>>

NextRW == RwReplace

SpecRW == InitRW /\ [][NextRW]_vars

----------------------------------------------------------------------------

IdleStore ==
  /\ assets = EmptyMap
  /\ guidToPath = EmptyMap
  /\ pathToGuid = EmptyMap
  /\ call = CallIdle

InitImport ==
  /\ IdleStore
  /\ rw = RwIdle
  /\ imp = ImpIdle
  /\ gz = GzIdle
  /\ thumb = ThumbIdle
  /\ anim = AnimIdle
  /\ acall = AcallIdle
  /\ prefab = PrefabIdle
  /\ pcall = PcallIdle

\* fromArrayBuffer applied to an archive that holds one more entry;
\* extractTarGz keys the entries by name
ImportArchive ==
  /\ Len(imp.entries) < MaxEntries
  /\ \E e \in EntryPool :
       LET entries == EntriesSet(imp.entries, e.name, e.data)
       IN  imp' = [entries |-> entries, out |-> ImportEntries(entries)]
  /\ UNCHANGED <<storeVars, rw, gz, thumb, anim, acall, prefab, pcall>>

NextImport == ImportArchive

SpecImport == InitImport /\ [][NextImport]_vars

----------------------------------------------------------------------------

InitGzip ==
  /\ IdleStore
  /\ rw = RwIdle
  /\ imp = ImpIdle
  /\ \E data \in GzInputs : gz = [GzIdle EXCEPT !.data = data]
  /\ thumb = ThumbIdle
  /\ anim = AnimIdle
  /\ acall = AcallIdle
  /\ prefab = PrefabIdle
  /\ pcall = PcallIdle

GzReturn(op, name, o) ==
  /\ gz' = [op |-> op, data |-> gz.data, name |-> name, out |-> o.out, after |-> o.after]
  /\ UNCHANGED <<storeVars, rw, imp, thumb, anim, acall, prefab, pcall>>

\* a call of addOriginalNameToGzip
AddOriginalName ==
  /\ gz.op = "none"
  /\ \E name \in GzNames :
       GzReturn("addOriginalNameToGzip", name, addOriginalNameToGzip(gz.data, name))

\* the last two statements of export; gz.data is the output of compressTarGz
ExportGzip ==
  /\ gz.op = "none"
  /\ gz.data \in GzipStreams
  /\ GzReturn("export", ArchName, addOriginalNameToGzip(gz.data, ArchName))

NextGzip == AddOriginalName \/ ExportGzip

SpecGzip == InitGzip /\ [][NextGzip]_vars

----------------------------------------------------------------------------

InitThumb ==
  /\ \E groups \in ThumbArchives :
       LET st == fromArrayBuffer(groups)
       IN  /\ assets = st.assets
           /\ guidToPath = st.guidToPath
           /\ pathToGuid = st.pathToGuid
  /\ call = [op |-> "import", path |-> <<>>, arg |-> NoGuid, target |-> NoGuid,
             result |-> "true", pre |-> EmptyStore]
  /\ rw = RwIdle
  /\ imp = ImpIdle
  /\ gz = GzIdle
  /\ thumb = ThumbIdle
  /\ anim = AnimIdle
  /\ acall = AcallIdle
  /\ prefab = PrefabIdle
  /\ pcall = PcallIdle

\* a call of refreshThumbnail runs up to its await
RefreshThumbnail ==
  /\ thumb.phase # "pending"
  /\ thumb.second.phase # "pending"
  /\ \E assetPath \in Paths : thumb' = refreshThumbnailCall(CurrentStore, assetPath)
  /\ call' = CallIdle
  /\ UNCHANGED <<assets, guidToPath, pathToGuid, rw, imp, gz, anim, acall, prefab, pcall>>

\* generateSquareThumbnail settles and the pending call resumes
ThumbnailSettles ==
  /\ thumb.phase = "pending"
  /\ \E outcome \in {Failed} \cup Thumbnails :
       IF outcome = Failed
       THEN /\ thumb' = [thumb EXCEPT !.phase = "rejected", !.error = "generator",
                                      !.generated = Failed, !.pre = CurrentStore]
            /\ UNCHANGED assets
       ELSE /\ thumb' = [thumb EXCEPT !.phase = "resolved", !.generated = outcome,
                                      !.pre = CurrentStore, !.last = 1]
            /\ assets' = AssignPreview(assets, thumb.at, outcome)
  /\ call' = CallIdle
  /\ UNCHANGED <<guidToPath, pathToGuid, rw, imp, gz, anim, acall, prefab, pcall>>

NextThumb == Rename \/ ReplaceGuid \/ RefreshThumbnail \/ ThumbnailSettles

SpecThumb == InitThumb /\ [][NextThumb]_vars

----------------------------------------------------------------------------

\* the package of the overlapping calls: two assets, the first an image
OverlapArchives ==
  { ar \in ThumbArchives :
      ar[1].meta = None /\ ar[1].preview = None /\ ar[2].pathname = P2 /\ ar[2].preview = None }

InitOverlap ==
  /\ \E groups \in OverlapArchives :
       LET st == fromArrayBuffer(groups)
       IN  /\ assets = st.assets
           /\ guidToPath = st.guidToPath
           /\ pathToGuid = st.pathToGuid
  /\ call = [op |-> "import", path |-> <<>>, arg |-> NoGuid, target |-> NoGuid,
             result |-> "true", pre |-> EmptyStore]
  /\ rw = RwIdle
  /\ imp = ImpIdle
  /\ gz = GzIdle
  /\ thumb = ThumbIdle
  /\ anim = AnimIdle
  /\ acall = AcallIdle
  /\ prefab = PrefabIdle
  /\ pcall = PcallIdle

\* a second call of refreshThumbnail runs up to its await while the first
\* call is pending
RefreshThumbnailAgain ==
  /\ thumb.phase = "pending"
  /\ thumb.second.phase = "idle"
  /\ \E assetPath \in Paths :
       LET started == refreshThumbnailCall(CurrentStore, assetPath)
       IN  thumb' = [thumb EXCEPT !.second = [phase |-> started.phase, at |-> started.at,
                                              generated |-> None]]
  /\ call' = CallIdle
  /\ UNCHANGED <<assets, guidToPath, pathToGuid, rw, imp, gz, anim, acall, prefab, pcall>>

\* the generator of the second call settles and the second call resumes
SecondThumbnailSettles ==
  /\ thumb.second.phase = "pending"
  /\ \E outcome \in {Failed} \cup SecondThumbnails :
       IF outcome = Failed
       THEN /\ thumb' = [thumb EXCEPT !.second.phase = "rejected",
                                      !.second.generated = Failed]
            /\ UNCHANGED assets
       ELSE /\ thumb' = [thumb EXCEPT !.second.phase = "resolved",
                                      !.second.generated = outcome, !.last = 2]
            /\ assets' = AssignPreview(assets, thumb.second.at, outcome)
  /\ call' = CallIdle
  /\ UNCHANGED <<guidToPath, pathToGuid, rw, imp, gz, anim, acall, prefab, pcall>>

\* the first call of refreshThumbnail on the imported package
FirstRefreshThumbnail == thumb.phase = "idle" /\ thumb.second.phase = "idle" /\ RefreshThumbnail

Pending == thumb.phase = "pending" \/ thumb.second.phase = "pending"

\* renameAsset while a call of refreshThumbnail is pending
RenameWhilePending ==
  /\ Pending
  /\ thumb.moves < MaxMoves
  /\ \E oldAssetPath \in Paths, newAssetPath \in Paths :
       /\ Return("renameAsset", oldAssetPath, newAssetPath,
                 renameAsset(CurrentStore, oldAssetPath, newAssetPath))
       /\ thumb' = [ThumbAfterRename(thumb, CurrentStore, oldAssetPath, newAssetPath)
                      EXCEPT !.moves = thumb.moves + 1]
  /\ UNCHANGED <<rw, imp, gz, anim, acall, prefab, pcall>>

\* replaceAssetGuid while a call of refreshThumbnail is pending
ReplaceGuidWhilePending ==
  /\ Pending
  /\ thumb.moves < MaxMoves
  /\ \E assetPath \in Paths, newGuid \in Guids \cup {NoGuid} :
       \E draws \in (IF newGuid = NoGuid THEN Draws ELSE {<<>>}) :
         LET o == replaceAssetGuid(CurrentStore, assetPath, newGuid,
                    IF newGuid = NoGuid THEN generateNewGuid(draws) ELSE NoGuid)
         IN  /\ Return("replaceAssetGuid", assetPath, newGuid, o)
             /\ thumb' = [ThumbAfterReplace(thumb, assetPath, o.result)
                            EXCEPT !.moves = thumb.moves + 1]
  /\ UNCHANGED <<rw, imp, gz, anim, acall, prefab, pcall>>

NextOverlap ==
  \/ FirstRefreshThumbnail \/ RenameWhilePending \/ ReplaceGuidWhilePending
  \/ ThumbnailSettles \/ RefreshThumbnailAgain \/ SecondThumbnailSettles

SpecOverlap == InitOverlap /\ [][NextOverlap]_vars

----------------------------------------------------------------------------

InitAnim ==
  /\ IdleStore
  /\ rw = RwIdle
  /\ imp = ImpIdle
  /\ gz = GzIdle
  /\ thumb = ThumbIdle
  /\ \E yamlContent \in Documents : anim = UnityAnimation(yamlContent).editor
  /\ acall = AcallIdle
  /\ prefab = PrefabIdle
  /\ pcall = PcallIdle

\* the editor and the record of the call after a call
AnimReturn(record, ed) ==
  /\ acall.calls < MaxCalls
  /\ anim' = ed
  /\ acall' = [record EXCEPT !.pre = anim, !.calls = acall.calls + 1]
  /\ UNCHANGED <<storeVars, rw, imp, gz, thumb, prefab, pcall>>

SetName ==
  \E name \in Names :
    AnimReturn([AcallIdle EXCEPT !.op = "setName", !.name = name], setName(anim, name))

AddCurve ==
  \E key \in CurveKeys, keyframes \in KeyframeLists :
    AnimReturn([AcallIdle EXCEPT !.op = "addCurve", !.attribute = key[1],
                                 !.path = key[2], !.keyframes = keyframes],
               addCurve(anim, FloatCurve(key[1], key[2], NewClassID, keyframes)))

RemoveCurve ==
  \E key \in CurveKeys :
    AnimReturn([AcallIdle EXCEPT !.op = "removeCurve", !.attribute = key[1],
                                 !.path = key[2]],
               removeCurve(anim, key[1], key[2]))

AddKeyframe ==
  \E key \in CurveKeys, keyframe \in Keyframes :
    AnimReturn([AcallIdle EXCEPT !.op = "addKeyframe", !.attribute = key[1],
                                 !.path = key[2], !.keyframes = <<keyframe>>],
               addKeyframe(anim, key[1], key[2], keyframe))

RemoveKeyframe ==
  \E key \in CurveKeys, time \in Times :
    AnimReturn([AcallIdle EXCEPT !.op = "removeKeyframe", !.attribute = key[1],
                                 !.path = key[2], !.time = time],
               removeKeyframe(anim, key[1], key[2], time))

ExportToYaml ==
  AnimReturn([AcallIdle EXCEPT !.op = "exportToYaml", !.text = exportToYaml(anim).text],
             exportToYaml(anim).editor)

\* anim = new UnityAnimation(yamlContent): when the constructor throws,
\* there is no new editor and anim keeps the one it held
NewUnityAnimation ==
  \E yamlContent \in Documents \cup OtherDocuments :
    LET made == UnityAnimation(yamlContent)
    IN  AnimReturn([AcallIdle EXCEPT !.op = "new", !.text = yamlContent,
                                    !.thrown = made.thrown, !.error = made.error],
                   IF made.thrown THEN anim ELSE made.editor)

NextAnim ==
  \/ SetName \/ AddCurve \/ RemoveCurve \/ AddKeyframe \/ RemoveKeyframe
  \/ ExportToYaml \/ NewUnityAnimation

SpecAnim == InitAnim /\ [][NextAnim]_vars

InitPrefab ==
  /\ IdleStore
  /\ rw = RwIdle
  /\ imp = ImpIdle
  /\ gz = GzIdle
  /\ thumb = ThumbIdle
  /\ anim = AnimIdle
  /\ acall = AcallIdle
  /\ prefab \in PrefabDocuments
  /\ pcall = PcallIdle

UpdateComponentProperties ==
  \E targetScriptGuid \in ScriptGuids, newProperties \in PropertyMaps :
    /\ pcall.calls < MaxCalls
    /\ prefab' = updateComponentProperties(prefab, targetScriptGuid, newProperties)
    /\ pcall' = [op |-> "updateComponentProperties", targetScriptGuid |-> targetScriptGuid,
                 newProperties |-> newProperties, pre |-> prefab,
                 calls |-> pcall.calls + 1]
    /\ UNCHANGED <<storeVars, rw, imp, gz, thumb, anim, acall>>

NextPrefab == UpdateComponentProperties

SpecPrefab == InitPrefab /\ [][NextPrefab]_vars

InitStoreBack ==
  /\ \E groups \in BomArchives :
       LET st == fromArrayBuffer(groups)
       IN  /\ assets = st.assets
           /\ guidToPath = st.guidToPath
           /\ pathToGuid = st.pathToGuid
  /\ call = [op |-> "import", path |-> <<>>, arg |-> NoGuid, target |-> NoGuid,
             result |-> "true", pre |-> EmptyStore]
  /\ rw = RwIdle
  /\ imp = ImpIdle
  /\ gz = GzIdle
  /\ thumb = ThumbIdle
  /\ anim = AnimIdle
  /\ acall = AcallIdle
  /\ prefab = PrefabIdle
  /\ pcall = PcallIdle

SpecStoreBack == InitStoreBack /\ [][Next]_vars

----------------------------------------------------------------------------
(* Vocabulary of the properties *)

Pre == call.pre

IsRename == call.op = "renameAsset"

IsReplace == call.op = "replaceAssetGuid"

Size(m) == Cardinality(DOMAIN m)

\* the bytes are well-formed UTF-8
IsValidUtf8(bytes) == \A i \in 1..Len(bytes) : bytes[i] # "0xFF"

\* g occurs in text at position i, delimited by non-hexadecimal characters
\* or by the ends of the text
ExactAt(text, i, g) ==
  /\ i >= 1 /\ i + Len(g) - 1 <= Len(text)
  /\ \A k \in 1..Len(g) : text[i + k - 1] = g[k]
  /\ (i > 1 => text[i - 1] \notin HexChars)
  /\ (i + Len(g) <= Len(text) => text[i + Len(g)] \notin HexChars)

HasExact(text, g) == \E i \in 1..Len(text) : ExactAt(text, i, g)

\* g occurs in text at position i inside a longer hexadecimal run
InsideRunAt(text, i, g) ==
  /\ i >= 1 /\ i + Len(g) - 1 <= Len(text)
  /\ \A k \in 1..Len(g) : text[i + k - 1] = g[k]
  /\ ~ExactAt(text, i, g)

Contains(text, g) ==
  \E i \in 1..Len(text) :
    /\ i + Len(g) - 1 <= Len(text)
    /\ \A k \in 1..Len(g) : text[i + k - 1] = g[k]

\* text has a line that reads exactly `guid: <g>`
HasGuidLine(text, g) ==
  \E i \in 1..Len(text) :
    /\ i + Len(GuidLine(g)) - 1 <= Len(text)
    /\ \A k \in 1..Len(GuidLine(g)) : text[i + k - 1] = GuidLine(g)[k]
    /\ (i > 1 => text[i - 1] \in {"\n", "\r"})
    /\ (i + Len(GuidLine(g)) <= Len(text)
          => text[i + Len(GuidLine(g))] \in {"\n", "\r"})

\* a replaceAssetGuid call with an explicit GUID that is free, on a stored path
ReplaceApplies ==
  /\ IsReplace
  /\ call.arg # NoGuid
  /\ call.path \in DOMAIN Pre.assets
  /\ call.arg \notin DOMAIN Pre.guidToPath

OldGuid == Pre.assets[call.path].guid

----------------------------------------------------------------------------
(* Asset Graph Store *)

\* C1: in every reachable state, every stored asset a has
\* guidToPath[a.guid] = a.assetPath and pathToGuid[a.assetPath] = a.guid, and
\* guidToPath and pathToGuid have exactly as many entries as the asset map.
C1_IndexConsistency ==
  /\ \A p \in DOMAIN assets :
       /\ assets[p].guid \in DOMAIN guidToPath
       /\ guidToPath[assets[p].guid] = assets[p].assetPath
       /\ assets[p].assetPath \in DOMAIN pathToGuid
       /\ pathToGuid[assets[p].assetPath] = assets[p].guid
  /\ Size(guidToPath) = Size(assets)
  /\ Size(pathToGuid) = Size(assets)

\* C2: in every reachable state no two stored assets share a guid, no two
\* share an assetPath, and every asset's assetPath is the key it is stored under.
C2_Uniqueness ==
  /\ \A p \in DOMAIN assets : assets[p].assetPath = p
  /\ \A p, q \in DOMAIN assets :
       p # q => /\ assets[p].guid # assets[q].guid
                /\ assets[p].assetPath # assets[q].assetPath

\* C2 witness: two assets are stored and one of them has just been given the
\* GUID the other one carried in the archive.
C2_Witness ==
  /\ IsReplace /\ call.result = "true"
  /\ Size(assets) = 2
  /\ \E q \in DOMAIN assets : q # call.path /\ assets[q].guid = G3
  /\ call.target \in {G1, G2}

\* C3: renameAsset(oldPath, newPath) on a stored oldPath, for every newPath
\* (unused or occupied by another asset), returns true, keeps the asset count,
\* leaves oldPath absent and newPath holding the renamed asset with the same
\* guid, payload, sidecar and preview.  Stated for newPath other than oldPath:
\* with newPath = oldPath the asset necessarily stays under oldPath.
C3_RenamePostcondition ==
  (IsRename /\ call.path \in DOMAIN Pre.assets /\ call.arg # call.path) =>
    /\ call.result = "true"
    /\ Size(assets) = Size(Pre.assets)
    /\ call.path \notin DOMAIN assets
    /\ call.arg \in DOMAIN assets
    /\ assets[call.arg].guid = Pre.assets[call.path].guid
    /\ assets[call.arg].assetData = Pre.assets[call.path].assetData
    /\ assets[call.arg].metaData = Pre.assets[call.path].metaData
    /\ assets[call.arg].previewData = Pre.assets[call.path].previewData

\* C4: replaceAssetGuid on a stored path with a newGuid that is a key of
\* guidToPath (the asset's own guid included) throws and leaves the assets and
\* both indexes as they were.
C4_CollisionThrowsUnchanged ==
  (/\ IsReplace
   /\ call.path \in DOMAIN Pre.assets
   /\ call.arg # NoGuid
   /\ call.arg \in DOMAIN Pre.guidToPath)
  => (call.result = "throw" /\ CurrentStore = Pre)

\* C4 witness: a call asking for the GUID of another stored asset has thrown.
C4_Witness ==
  /\ IsReplace /\ call.result = "throw"
  /\ call.path \in DOMAIN Pre.assets
  /\ \E q \in DOMAIN Pre.assets : q # call.path /\ Pre.assets[q].guid = call.arg

\* C5: renameAsset and replaceAssetGuid on a path that is not stored return
\* false, without throwing, and leave the assets and both indexes unchanged,
\* whatever the other argument (a GUID in use and an omitted GUID included).
C5_NotFoundIsSoft ==
  ((IsRename \/ IsReplace) /\ call.path \notin DOMAIN Pre.assets)
  => (call.result = "false" /\ CurrentStore = Pre)

\* C5 witness: replaceAssetGuid on an absent path, asking for a GUID that is
\* in use, has returned false.
C5_Witness ==
  /\ IsReplace /\ call.result = "false"
  /\ call.path \notin DOMAIN Pre.assets
  /\ call.arg \in DOMAIN Pre.guidToPath

\* C6 (as stated): a successful replaceAssetGuid(path, newGuid) returns true,
\* keeps the asset under the same path and assetPath, keeps the asset count,
\* sets the guid to newGuid, removes the old guid from guidToPath and leaves
\* the target's payload bytes unchanged for every payload content.
C6_ReplaceFrame_AsStated ==
  ReplaceApplies =>
    /\ call.result = "true"
    /\ DOMAIN assets = DOMAIN Pre.assets
    /\ assets[call.path].assetPath = call.path
    /\ assets[call.path].guid = call.arg
    /\ OldGuid \notin DOMAIN guidToPath
    /\ assets[call.path].assetData = Pre.assets[call.path].assetData

\* C6 (amended): as above, but the target's payload bytes are unchanged
\* whenever its decoded text holds no occurrence of the old GUID delimited by
\* non-hexadecimal characters; such occurrences are rewritten like any other
\* asset's references.
C6_ReplaceFrame ==
  ReplaceApplies =>
    /\ call.result = "true"
    /\ DOMAIN assets = DOMAIN Pre.assets
    /\ assets[call.path].assetPath = call.path
    /\ assets[call.path].guid = call.arg
    /\ OldGuid \notin DOMAIN guidToPath
    /\ (~HasExact(uint8ArrayToString(Pre.assets[call.path].assetData), OldGuid)
          => assets[call.path].assetData = Pre.assets[call.path].assetData)
    /\ (HasExact(uint8ArrayToString(Pre.assets[call.path].assetData), OldGuid)
          => /\ HasExact(uint8ArrayToString(assets[call.path].assetData), call.arg)
             /\ ~HasExact(uint8ArrayToString(assets[call.path].assetData), OldGuid))

\* C6 witness: a GUID replacement succeeded on an asset whose payload does not
\* refer to the asset itself, while another asset is stored.
C6_Witness ==
  /\ ReplaceApplies /\ call.result = "true"
  /\ Size(assets) = 2
  /\ ~HasExact(uint8ArrayToString(Pre.assets[call.path].assetData), OldGuid)
  /\ assets[call.path].assetData = Pre.assets[call.path].assetData

----------------------------------------------------------------------------
(* GUID Reference Rewriter *)

RefersTo(bytes, g) ==
  /\ bytes # None
  /\ IsValidUtf8(bytes)
  /\ HasExact(uint8ArrayToString(bytes), g)

Rewritten(before, after, old, new) ==
  RefersTo(before, old) =>
    /\ after # None
    /\ HasExact(uint8ArrayToString(after), new)
    /\ ~HasExact(uint8ArrayToString(after), old)

\* C7: after a successful replaceAssetGuid from oldGuid to newGuid, every
\* other asset's payload and sidecar that is UTF-8 text and held oldGuid as an
\* exact identifier (not inside a longer hexadecimal run) holds newGuid as an
\* identifier and no longer holds oldGuid as one.
C7_ReferencePropagation ==
  (ReplaceApplies /\ call.result = "true") =>
    \A q \in DOMAIN Pre.assets \ {call.path} :
      /\ q \in DOMAIN assets
      /\ Rewritten(Pre.assets[q].assetData, assets[q].assetData, OldGuid, call.arg)
      /\ Rewritten(Pre.assets[q].metaData, assets[q].metaData, OldGuid, call.arg)

\* C7 witness: the replacement succeeded while another asset referred to the
\* old GUID both in its payload and in its sidecar.
C7_Witness ==
  /\ ReplaceApplies /\ call.result = "true"
  /\ \E q \in DOMAIN Pre.assets \ {call.path} :
       /\ RefersTo(Pre.assets[q].assetData, OldGuid)
       /\ RefersTo(Pre.assets[q].metaData, OldGuid)

Covering(text, j, g) ==
  { i \in 1..Len(text) : ExactAt(text, i, g) /\ i <= j /\ j < i + Len(g) }

\* C8: the rewriter replaces by newGuid exactly the occurrences of oldGuid
\* that are neither preceded nor followed by a hexadecimal character, and
\* leaves every other character of the text unchanged.
C8_BoundarySafeRewrite ==
  rw.out # None =>
    /\ Len(rw.out) = Len(rw.text)
    /\ \A j \in 1..Len(rw.text) :
         IF Covering(rw.text, j, rw.oldGuid) = {}
         THEN rw.out[j] = rw.text[j]
         ELSE \A i \in Covering(rw.text, j, rw.oldGuid) :
                rw.out[j] = rw.newGuid[j - i + 1]

\* C8 witness: a text holding the old GUID once as an exact identifier and
\* once inside a longer hexadecimal run has been rewritten.
C8_Witness ==
  /\ rw.out # None
  /\ \E i \in 1..Len(rw.text) : ExactAt(rw.text, i, rw.oldGuid)
  /\ \E i \in 1..Len(rw.text) : InsideRunAt(rw.text, i, rw.oldGuid)
  /\ rw.out # rw.text

\* C9: a replaceAssetGuid call leaves every payload and every sidecar that is
\* not valid UTF-8 byte-for-byte unchanged, also when the field holds the
\* bytes of the old GUID between non-hexadecimal bytes.
C9_BinaryFieldsSkipped ==
  IsReplace =>
    \A q \in DOMAIN Pre.assets :
      /\ q \in DOMAIN assets
      /\ (~IsValidUtf8(Pre.assets[q].assetData)
            => assets[q].assetData = Pre.assets[q].assetData)
      /\ ((Pre.assets[q].metaData # None /\ ~IsValidUtf8(Pre.assets[q].metaData))
            => assets[q].metaData = Pre.assets[q].metaData)

\* C10: after a successful replaceAssetGuid(path, newGuid) on an asset whose
\* sidecar has a line `guid: <oldGuid>` (LF or CRLF), the sidecar has a line
\* `guid: <newGuid>` and no line `guid: <oldGuid>`; an asset without a
\* sidecar still has none.
C10_SidecarDeclaration ==
  (ReplaceApplies /\ call.result = "true") =>
    /\ \A q \in DOMAIN Pre.assets :
         Pre.assets[q].metaData = None => assets[q].metaData = None
    /\ (/\ Pre.assets[call.path].metaData # None
        /\ HasGuidLine(uint8ArrayToString(Pre.assets[call.path].metaData), OldGuid))
       => /\ assets[call.path].metaData # None
          /\ HasGuidLine(uint8ArrayToString(assets[call.path].metaData), call.arg)
          /\ ~HasGuidLine(uint8ArrayToString(assets[call.path].metaData), OldGuid)

\* C10 witness: the replacement succeeded on an asset whose sidecar declared
\* the old GUID on a CRLF-terminated line, next to an asset without sidecar.
C10_Witness ==
  /\ ReplaceApplies /\ call.result = "true"
  /\ Pre.assets[call.path].metaData # None
  /\ HasGuidLine(uint8ArrayToString(Pre.assets[call.path].metaData), OldGuid)
  /\ Contains(uint8ArrayToString(Pre.assets[call.path].metaData),
              GuidLine(OldGuid) \o <<"\r", "\n">>)
  /\ \E q \in DOMAIN Pre.assets : Pre.assets[q].metaData = None

----------------------------------------------------------------------------
(* Package round trip *)

\* the orders in which a map with the keys S can be iterated
Orders(S) ==
  { o \in [1..Cardinality(S) -> S] : \A i, j \in DOMAIN o : o[i] = o[j] => i = j }

\* Import(Export(store)) when the asset map is iterated in the given order
RoundTrip(st, order) == ImportEntries(ExportEntries(<<>>, st.assets, order))

RoundTrips(st) == { RoundTrip(st, o) : o \in Orders(DOMAIN st.assets) }

\* C11: exporting the store reached by Import and any calls of renameAsset
\* and replaceAssetGuid and importing the result gives the same asset paths
\* and, for each path, the same guid, assetPath, payload, sidecar and
\* preview; the same holds after three successive round trips.
C11_PackageRoundTrip ==
  /\ \A st1 \in RoundTrips(CurrentStore) : st1.assets = assets
  /\ \A st1 \in RoundTrips(CurrentStore) :
       \A st2 \in RoundTrips(st1) :
         \A st3 \in RoundTrips(st2) : st3.assets = assets

----------------------------------------------------------------------------
(* Import grouping *)

HasEntry(name) == \E i \in 1..Len(imp.entries) : imp.entries[i].name = name

DataOf(name) ==
  imp.entries[CHOOSE i \in 1..Len(imp.entries) : imp.entries[i].name = name].data

OptionalData(name) == IF HasEntry(name) THEN DataOf(name) ELSE None

\* the group of guid has both a <guid>/pathname and a <guid>/asset entry
Complete(guid) ==
  HasEntry(EntryName(guid, KindPathname)) /\ HasEntry(EntryName(guid, KindAsset))

\* the asset the claim expects for a complete group
ExpectedAsset(guid) ==
  [guid |-> guid,
   assetPath |-> Trim(uint8ArrayToString(DataOf(EntryName(guid, KindPathname)))),
   assetData |-> DataOf(EntryName(guid, KindAsset)),
   metaData |-> OptionalData(EntryName(guid, KindMeta)),
   previewData |-> OptionalData(EntryName(guid, KindPreview))]

\* C12: Import creates exactly one asset per group that has both a
\* <guid>/pathname and a <guid>/asset entry, with the fields taken from the
\* entries of the group; incomplete groups and entries whose name is not
\* exactly <guid>/<kind> contribute nothing.
C12_ImportGrouping ==
  LET out == imp.out.assets
  IN  /\ Size(out) = Cardinality({ g \in Guids : Complete(g) })
      /\ \A g \in Guids :
           Complete(g) => \E p \in DOMAIN out : out[p] = ExpectedAsset(g) /\ p = out[p].assetPath
      /\ \A p \in DOMAIN out : out[p].guid \in Guids /\ Complete(out[p].guid)

----------------------------------------------------------------------------
(* Auto-generated GUID *)

IsLowerHexGuid(g) ==
  /\ Len(g) = GuidLen
  /\ \A i \in 1..Len(g) :
       g[i] \in {"0", "1", "2", "3", "4", "5", "6", "7", "8", "9",
                 "a", "b", "c", "d", "e", "f"}

\* replaceAssetGuid was called without newGuid on an existing asset
IsAutoReplace ==
  IsReplace /\ call.arg = NoGuid /\ call.path \in DOMAIN Pre.assets

\* C14: replaceAssetGuid without newGuid on an existing asset draws one
\* candidate (call.target); if it is not a key of guidToPath the call returns
\* true and the asset's guid is the candidate, is GuidLen lower-case
\* hexadecimal characters and differs from the previous guid; otherwise the
\* call throws and the store is unchanged.
C14_AutoGeneratedGuid ==
  IsAutoReplace =>
    IF call.target \notin DOMAIN Pre.guidToPath
    THEN /\ call.result = "true"
         /\ call.path \in DOMAIN assets
         /\ assets[call.path].guid = call.target
         /\ IsLowerHexGuid(assets[call.path].guid)
         /\ assets[call.path].guid # Pre.assets[call.path].guid
    ELSE /\ call.result = "throw"
         /\ CurrentStore = Pre

C14_Witness ==
  /\ IsAutoReplace
  /\ call.result = "true"
  /\ Size(Pre.assets) = 2

C14_WitnessThrow ==
  /\ IsAutoReplace
  /\ call.result = "throw"
  /\ call.target # Pre.assets[call.path].guid

----------------------------------------------------------------------------
(* Original-name injection *)

IsAscii(name) == \A i \in 1..Len(name) : name[i] < 128

\* addOriginalNameToGzip has returned from a call with an input of at least
\* ten bytes and an ASCII name
GzCase == gz.op # "none" /\ Len(gz.data) >= 10 /\ IsAscii(gz.name)

\* C13: export passes the name 'archtemp.tar'; for an input of at least 10
\* bytes and an ASCII name n the result has length len(input) + len(n) + 1,
\* its bytes 0..9 are the input header with bit 0x08 of byte 3 set (bytes 0
\* and 1 being 0x1F 0x8B), then come the bytes of n, a zero byte and the
\* input from offset 10 on.
C13_OriginalNameInjection ==
  /\ gz.op = "export" => gz.name = ArchName
  /\ GzCase =>
       LET in == gz.data
           n == Len(gz.name)
           out == gz.out.bytes
       IN  /\ ~gz.out.thrown
           /\ Len(out) = Len(in) + n + 1
           /\ \A i \in 1..10 : i # 4 => out[i] = in[i]
           /\ out[4] \in {in[4], in[4] + 8}
           /\ (out[4] \div 8) % 2 = 1
           /\ (in[4] \div 8) % 2 = 1 => out[4] = in[4]
           /\ out[1] = 31 /\ out[2] = 139
           /\ \A i \in 1..n : out[10 + i] = gz.name[i]
           /\ out[10 + n + 1] = 0
           /\ \A i \in 11..Len(in) : out[i + n + 1] = in[i]

C13_Witness ==
  /\ GzCase
  /\ gz.op = "export"
  /\ gz.data[4] = 247
  /\ Len(gz.data) = 10 + MaxBody

----------------------------------------------------------------------------
(* refreshThumbnail *)

SameLetter(a, b) ==
  a = b \/ \E k \in 1..26 : {a, b} = {UpperCase[k], LowerCase[k]}

\* path ends, case-insensitively, in .png .jpg .jpeg .gif .bmp or .webp
HasImageExtension(path) ==
  \E ext \in imageExtensions :
    /\ Len(path) >= Len(ext)
    /\ \A i \in 1..Len(ext) : SameLetter(path[Len(path) - Len(ext) + i], ext[i])

ThumbSettled == thumb.phase \in {"rejected", "resolved"}

\* every field of the asset but its preview is as before
SameButPreview(a, b) ==
  /\ a.guid = b.guid
  /\ a.assetPath = b.assetPath
  /\ a.assetData = b.assetData
  /\ a.metaData = b.metaData

\* C15: refreshThumbnail rejects with not-found when no asset is stored at
\* the path, else with not-an-image, without calling the generator, when the
\* path has no image extension, else it rejects when the generator fails; a
\* rejection changes nothing, and a success changes only the preview of the
\* target asset.
C15_RefreshThumbnailOutcomes ==
  ThumbSettled =>
    /\ ~thumb.stored =>
         thumb.phase = "rejected" /\ thumb.error = "not-found" /\ ~thumb.called
    /\ thumb.stored /\ ~HasImageExtension(thumb.path) =>
         thumb.phase = "rejected" /\ thumb.error = "not-image" /\ ~thumb.called
    /\ thumb.stored /\ HasImageExtension(thumb.path) =>
         /\ thumb.called
         /\ thumb.generated = Failed => thumb.phase = "rejected" /\ thumb.error = "generator"
         /\ thumb.generated # Failed => thumb.phase = "resolved"
    /\ thumb.phase = "rejected" => CurrentStore = thumb.pre
    /\ thumb.phase = "resolved" =>
         /\ guidToPath = thumb.pre.guidToPath
         /\ pathToGuid = thumb.pre.pathToGuid
         /\ DOMAIN assets = DOMAIN thumb.pre.assets
         /\ \A p \in DOMAIN assets :
              /\ SameButPreview(assets[p], thumb.pre.assets[p])
              /\ p # thumb.at => assets[p] = thumb.pre.assets[p]
              /\ p = thumb.at => assets[p].previewData = thumb.generated

\* the target was renamed while the generator ran, and got the new preview
C15_Witness ==
  /\ thumb.phase = "resolved"
  /\ thumb.at \in DOMAIN assets
  /\ thumb.at # thumb.path
  /\ assets[thumb.at].previewData # thumb.pre.assets[thumb.at].previewData
  /\ Size(assets) = 2

----------------------------------------------------------------------------
(* Curve editor *)

\* the editor constructed from the text the editor exports
Reconstructed(ed) == UnityAnimation(exportToYaml(ed).text)

\* name, number of curves and, curve by curve, (attribute, path) and the
\* keyframes with time, value, inSlope, outSlope and tangentMode
SameClip(a, b) ==
  /\ a.name = b.name
  /\ Len(a.curves) = Len(b.curves)
  /\ \A i \in 1..Len(a.curves) :
       /\ a.curves[i].attribute = b.curves[i].attribute
       /\ a.curves[i].path = b.curves[i].path
       /\ a.curves[i].keyframes = b.curves[i].keyframes

\* C16: after any sequence of edits, the editor constructed from
\* exportToYaml() has the same name, the same number of curves and in each
\* curve the same keyframes (time, value, slopes including +Infinity and
\* -Infinity, tangentMode); after three round trips name and curve count
\* are still the same.
C16_CurveEditorRoundTrip ==
  LET r1 == Reconstructed(anim)
      r2 == Reconstructed(r1.editor)
      r3 == Reconstructed(r2.editor)
  IN  /\ ~r1.thrown /\ SameClip(r1.editor, anim)
      /\ ~r2.thrown /\ ~r3.thrown
      /\ r3.editor.name = anim.name
      /\ Len(r3.editor.curves) = Len(anim.curves)

IsCall(op) == acall.op = op

\* the index, before the call, of the curve the call names; 0 if none
Target == getCurve(acall.pre.curves, acall.attribute, acall.path)

\* C17: addCurve replaces the keyframes of the curve with that attribute
\* and path and keeps number and order of the curves, or appends the curve
\* when there is none; getCurve then returns a curve with the given
\* keyframes and all other curves are unchanged.
C17_AddCurveUpsert ==
  IsCall("addCurve") =>
    LET old == acall.pre.curves
        new == anim.curves
        found == getCurve(new, acall.attribute, acall.path)
    IN  /\ found # 0 /\ new[found].keyframes = acall.keyframes
        /\ IF Target # 0
           THEN /\ Len(new) = Len(old)
                /\ found = Target
                /\ \A i \in 1..Len(old) :
                     /\ new[i].attribute = old[i].attribute
                     /\ new[i].path = old[i].path
                     /\ i # Target => new[i] = old[i]
           ELSE /\ Len(new) = Len(old) + 1
                /\ found = Len(new)
                /\ \A i \in 1..Len(old) : new[i] = old[i]

C17_Witness ==
  /\ IsCall("addCurve")
  /\ Target # 0
  /\ Len(anim.curves) = 2
  /\ anim.curves[Target].keyframes # acall.pre.curves[Target].keyframes

C17_WitnessAppend == IsCall("addCurve") /\ Target = 0 /\ Len(anim.curves) = 2

IsSorted(keyframes) ==
  \A i, j \in 1..Len(keyframes) : i < j => keyframes[i].time <= keyframes[j].time

Placements(n) ==
  { f \in [1..n -> 1..n] : \A i, j \in 1..n : f[i] = f[j] => i = j }

\* new holds the keyframes of old and then kf, each at the place f gives it
Placed(old, kf, new, f) ==
  /\ \A i \in 1..Len(old) : new[f[i]] = old[i]
  /\ new[f[Len(old) + 1]] = kf

\* C18: addKeyframe on an existing curve leaves the old keyframes plus kf,
\* sorted ascending by time, the old ones in their former relative order
\* and kf behind every old keyframe of equal time; without a matching curve
\* nothing changes.
C18_AddKeyframe ==
  IsCall("addKeyframe") =>
    IF Target = 0 THEN anim = acall.pre
    ELSE LET old == acall.pre.curves[Target].keyframes
             new == anim.curves[Target].keyframes
             kf == acall.keyframes[1]
         IN  /\ Len(anim.curves) = Len(acall.pre.curves)
             /\ Len(new) = Len(old) + 1
             /\ IsSorted(new)
             /\ \E f \in Placements(Len(new)) :
                  /\ Placed(old, kf, new, f)
                  /\ \A i, j \in 1..Len(old) : i < j => f[i] < f[j]
                  /\ \A i \in 1..Len(old) :
                       old[i].time = kf.time => f[i] < f[Len(old) + 1]

\* the distance of two times
Distance(a, b) == IF a >= b THEN a - b ELSE b - a

\* C19: removeKeyframe on an existing curve removes exactly the keyframes
\* whose time is within 0.001 of t, the bound included, and keeps the others
\* in their order; other curves are unchanged; without a matching curve
\* nothing changes.
C19_RemoveKeyframe ==
  IsCall("removeKeyframe") =>
    IF Target = 0 THEN anim = acall.pre
    ELSE /\ Len(anim.curves) = Len(acall.pre.curves)
         /\ \A i \in 1..Len(anim.curves) : i # Target => anim.curves[i] = acall.pre.curves[i]
         /\ anim.curves[Target].keyframes =
              SelectSeq(acall.pre.curves[Target].keyframes,
                        LAMBDA k : ~(Distance(k.time, acall.time) <= 2))
         /\ anim.name = acall.pre.name

\* a keyframe at distance exactly 0.001 was removed and another one kept
C19_Witness ==
  /\ IsCall("removeKeyframe")
  /\ Target # 0
  /\ \E i \in 1..Len(acall.pre.curves[Target].keyframes) :
       Distance(acall.pre.curves[Target].keyframes[i].time, acall.time) = 2
  /\ Len(anim.curves[Target].keyframes) = 1
  /\ Len(acall.pre.curves[Target].keyframes) = 3

\* C20: starting from a time-sorted document, after any sequence of
\* addCurve, addKeyframe, removeKeyframe, removeCurve, setName and
\* exportToYaml every curve's keyframes are sorted ascending by time.
C20_KeyframeOrdering ==
  \A i \in 1..Len(anim.curves) : IsSorted(anim.curves[i].keyframes)

\* the text in front of the located block and the text behind it
TextBefore(s) == SubSeq(s, 1, MatchStart(s) - 1)

TextAfter(s) == SubSeq(s, MatchEnd(s), Len(s))

\* C21: the text exportToYaml returns is the original text with the located
\* block replaced: it starts with the text in front of the AnimationClip: tag
\* and ends with the text from the next line that starts at column zero,
\* both character for character, whatever the name and the curves are.
C21_ExportPassThrough ==
  IsCall("exportToYaml") =>
    LET original == acall.pre.originalYaml.s
        exported == acall.text.s
        before == TextBefore(original)
        after == TextAfter(original)
    IN  /\ anim.originalYaml = acall.pre.originalYaml
        /\ Len(exported) > Len(before) + Len(after)
        /\ SubSeq(exported, 1, Len(before)) = before
        /\ exported[Len(before) + 1] = ClipTag
        /\ SubSeq(exported, Len(exported) - Len(after) + 1, Len(exported)) = after

C21_Witness ==
  /\ IsCall("exportToYaml")
  /\ TextBefore(acall.pre.originalYaml.s) # <<>>
  /\ TextAfter(acall.pre.originalYaml.s) # <<>>
  /\ anim.name = <<"$", "'">>
  /\ Len(anim.curves) = 2
  /\ acall.text.s # acall.pre.originalYaml.s

\* the structure exportToYaml serializes
Serialized == acall.text.d

\* C22: in the structure exportToYaml serializes, the generic bindings and
\* the editor curves hold exactly one entry per current float curve, in the
\* order of the curves, with the path, the attribute and the classID of
\* that curve (as typeID in the binding), whatever the baseline held; the
\* pptrCurveMapping of the baseline and its other fields are unchanged.
C22_RecomputedBindings ==
  IsCall("exportToYaml") =>
    LET curves == acall.pre.curves
        baseline == acall.pre.parsed
    IN  /\ anim.curves = curves
        /\ Len(Serialized.genericBindings) = Len(curves)
        /\ Len(Serialized.m_EditorCurves) = Len(curves)
        /\ \A i \in 1..Len(curves) :
             /\ Serialized.genericBindings[i] =
                  [path |-> curves[i].path, attribute |-> curves[i].attribute,
                   typeID |-> curves[i].classID]
             /\ Serialized.m_EditorCurves[i].path = curves[i].path
             /\ Serialized.m_EditorCurves[i].attribute = curves[i].attribute
             /\ Serialized.m_EditorCurves[i].classID = curves[i].classID
        /\ Serialized.pptrCurveMapping = baseline.pptrCurveMapping
        /\ Serialized.m_SampleRate = baseline.m_SampleRate
        /\ Serialized.m_LoopTime = baseline.m_LoopTime

\* the curve (x, b) of the baseline was removed and the curve (x, c) added
C22_Witness ==
  /\ IsCall("exportToYaml")
  /\ \E i \in 1..Len(acall.pre.parsed.genericBindings) :
       acall.pre.parsed.genericBindings[i].path = "b"
  /\ Len(acall.pre.parsed.genericBindings) = 2
  /\ acall.pre.parsed.pptrCurveMapping # <<>>
  /\ Len(anim.curves) = 1
  /\ anim.curves[1].path = "c"
  /\ Len(Serialized.genericBindings) = 1

\* the times of all keyframes before the call
TimesBefore == AllTimes(acall.pre.curves)

\* C23: with at least one keyframe, exportToYaml sets the start time to the
\* least and the stop time to the greatest time of all keyframes of all
\* curves; with no keyframe the start and stop time of the baseline stay as
\* they were; the other clip settings are never changed.
C23_StartStopTime ==
  IsCall("exportToYaml") =>
    /\ Serialized.m_LoopTime = acall.pre.parsed.m_LoopTime
    /\ IF TimesBefore # {}
       THEN /\ Serialized.m_StartTime = <<CHOOSE t \in TimesBefore : \A u \in TimesBefore : t <= u>>
            /\ Serialized.m_StopTime = <<CHOOSE t \in TimesBefore : \A u \in TimesBefore : t >= u>>
       ELSE /\ Serialized.m_StartTime = acall.pre.parsed.m_StartTime
            /\ Serialized.m_StopTime = acall.pre.parsed.m_StopTime

\* the block the constructor locates in a text with the tag
LocatedBlock(s) == SubSeq(s, MatchStart(s) + 1, MatchEnd(s) - 1)

\* the block is a document object: a mapping of fields
IsDocumentObject(block) ==
  LET lines == FieldLines(block)
  IN  /\ lines # <<>>
      /\ \A i \in 1..Len(lines) : IsNameLine(lines[i]) \/ IsDataLine(lines[i])
      /\ Len(SelectSeq(lines, IsNameLine)) <= 1
      /\ Len(SelectSeq(lines, IsDataLine)) <= 1

\* C26: the constructor fails with 'AnimationClip not found in YAML' and
\* makes no editor when the text has no AnimationClip: tag (the empty text
\* included), and fails with some error when the located block cannot be
\* parsed into a document object.
C26_ConstructionFailure ==
  IsCall("new") =>
    /\ ~HasClipTag(acall.text.s) =>
         /\ acall.thrown
         /\ acall.error = "AnimationClip not found in YAML"
         /\ anim = acall.pre
    /\ (HasClipTag(acall.text.s) /\ ~IsDocumentObject(LocatedBlock(acall.text.s))) =>
         /\ acall.thrown
         /\ anim = acall.pre

\* C27: after setName(n) getName() returns n, the curves are unchanged, and
\* the text exportToYaml() produces carries n as the name of the curve block:
\* an editor constructed from that text has the name n.
C27_NameReflectedInExport ==
  IsCall("setName") =>
    /\ anim.name = acall.name
    /\ anim.curves = acall.pre.curves
    /\ ~Reconstructed(anim).thrown
    /\ Reconstructed(anim).editor.name = acall.name

----------------------------------------------------------------------------
(* Component editor *)

IsUpdate == pcall.op = "updateComponentProperties"

\* a line that begins a document: --- and a blank
IsSeparatorLine(line) == Len(line) >= 2 /\ line[1] = "---" /\ line[2] = " "

\* the line that begins the document line i belongs to; 0 in front of the
\* first document
Owner(lines, i) ==
  IF \E j \in 1..i : IsSeparatorLine(lines[j])
  THEN CHOOSE j \in 1..i : IsSeparatorLine(lines[j]) /\ \A k \in (j + 1)..i : ~IsSeparatorLine(lines[k])
  ELSE 0

\* the lines from..to joined by line breaks
RECURSIVE Joined(_, _, _)
Joined(lines, from, to) ==
  IF from > to THEN <<>> ELSE lines[from] \o <<"\n">> \o Joined(lines, from + 1, to)

\* the last line of the document that begins in line o
LastLine(lines, o) ==
  CHOOSE j \in o..Len(lines) :
    /\ \A k \in (o + 1)..j : ~IsSeparatorLine(lines[k])
    /\ j = Len(lines) \/ IsSeparatorLine(lines[j + 1])

\* the document that begins in line o is a component with the script g
IsComponentOf(lines, o, g) ==
  /\ o > 0
  /\ Len(lines[o]) = 3 /\ lines[o][3] \in HeaderUnits /\ UnityType(lines[o][3]) = "114"
  /\ \E j \in (o + 1)..LastLine(lines, o) : \E x \in 1..Len(lines[j]) : lines[j][x] = MonoTag
  /\ ScriptGuid(Joined(lines, o + 1, LastLine(lines, o))) = <<g>>

\* the number of blanks a line starts with
RECURSIVE Indentation(_)
Indentation(line) ==
  IF line # <<>> /\ Head(line) = " " THEN 1 + Indentation(Tail(line)) ELSE 0

\* <indent>key:
IsKeyLine(line, key) ==
  /\ Indentation(line) >= 1
  /\ Len(line) >= Indentation(line) + 2
  /\ line[Indentation(line) + 1] = key
  /\ line[Indentation(line) + 2] = ":"

Keys(newProperties) == { newProperties[i][1] : i \in 1..Len(newProperties) }

\* line i is, for a key of the map, the first line <indent>key: of a
\* component with the script g
IsTargetLine(lines, i, g, newProperties) ==
  /\ IsComponentOf(lines, Owner(lines, i), g)
  /\ \E key \in Keys(newProperties) :
       /\ IsKeyLine(lines[i], key)
       /\ \A j \in (Owner(lines, i) + 1)..(i - 1) : ~IsKeyLine(lines[j], key)

\* C24: updateComponentProperties(g, props) changes nothing but the value
\* of, for each key of props, the first line <indent>key: of each component
\* with the script g: the document has the same lines as before, each one
\* unchanged or such a line with its indentation, key and colon kept.
C24_UpdateChangesOnlyTargetValue ==
  IsUpdate =>
    LET before == Lines(pcall.pre)
        after == Lines(prefab)
    IN  /\ Len(after) = Len(before)
        /\ \A i \in 1..Len(before) :
             \/ after[i] = before[i]
             \/ /\ IsTargetLine(before, i, pcall.targetScriptGuid, pcall.newProperties)
                /\ Len(after[i]) >= Indentation(before[i]) + 2
                /\ SubSeq(after[i], 1, Indentation(before[i]) + 2)
                     = SubSeq(before[i], 1, Indentation(before[i]) + 2)

\* the components view before and after the call
ComponentsBefore == parsePrefabComponents(pcall.pre)

ComponentsAfter == parsePrefabComponents(prefab)

\* C25: after updateComponentProperties(g, props) the recomputed view has,
\* for every component with the script g and every key of props that was in
\* its properties before, the value of props; the number of components and
\* fileId, unityType and scriptGuid of each are unchanged, and each rawYaml
\* is a part of the document.
C25_UpdateVisibleInView ==
  IsUpdate =>
    /\ Len(ComponentsAfter) = Len(ComponentsBefore)
    /\ \A i \in 1..Len(ComponentsBefore) :
         /\ ComponentsAfter[i].fileId = ComponentsBefore[i].fileId
         /\ ComponentsAfter[i].unityType = ComponentsBefore[i].unityType
         /\ ComponentsAfter[i].scriptGuid = ComponentsBefore[i].scriptGuid
         /\ Occurrences(prefab, ComponentsAfter[i].rawYaml) # {}
         /\ ComponentsBefore[i].scriptGuid = <<pcall.targetScriptGuid>> =>
              \A n \in 1..Len(pcall.newProperties) :
                pcall.newProperties[n][1] \in DOMAIN ComponentsBefore[i].properties =>
                  /\ pcall.newProperties[n][1] \in DOMAIN ComponentsAfter[i].properties
                  /\ ComponentsAfter[i].properties[pcall.newProperties[n][1]]
                       = pcall.newProperties[n][2]

----------------------------------------------------------------------------
(* Asset Graph Store, continued *)

\* the decoded field holds the GUID g delimited by non-hexadecimal
\* characters: an occurrence the call replaces
HasOccurrence(bytes, g) == HasExact(uint8ArrayToString(bytes), g)

\* C28: a successful replaceAssetGuid call stores back a payload or a
\* sidecar only if an occurrence of the old GUID was replaced in it: every
\* payload and every sidecar without such an occurrence, the sidecar of the
\* target and fields with a byte-order mark included, is byte for byte the
\* same after the call.
C28_StoreBackOnlyOnChange ==
  (IsReplace /\ call.result = "true") =>
    \A q \in DOMAIN Pre.assets :
      /\ q \in DOMAIN assets
      /\ ~HasOccurrence(Pre.assets[q].assetData, OldGuid)
           => assets[q].assetData = Pre.assets[q].assetData
      /\ (Pre.assets[q].metaData # None /\ ~HasOccurrence(Pre.assets[q].metaData, OldGuid))
           => assets[q].metaData = Pre.assets[q].metaData

\* C29: replaceAssetGuid(path, newGuid) on a stored path throws if and only
\* if an asset of the store has the guid newGuid; a GUID released by an
\* earlier replaceAssetGuid, or of an asset displaced by a rename onto its
\* path, can be assigned again.
C29_CollisionOnlyForGuidInUse ==
  (IsReplace /\ call.arg # NoGuid /\ call.path \in DOMAIN Pre.assets) =>
    (call.result = "throw" <=> \E q \in DOMAIN Pre.assets : Pre.assets[q].guid = call.arg)

----------------------------------------------------------------------------
(* refreshThumbnail, continued *)

\* C30: when renameAsset(p, q) or replaceAssetGuid(p, g) has run while
\* refreshThumbnail(p) was waiting for the generator, the completed call
\* stores the new preview on that same asset, now at q or with the guid g,
\* no other field of any asset changes, the call does not fail because p is
\* no longer a key, and the indexes are consistent; of two overlapping calls
\* on one asset the one that completes last determines the preview.
C30_InterleavedRefresh ==
  /\ (thumb.moved /\ thumb.at # Gone /\ thumb.phase \in {"resolved", "rejected"}) =>
       /\ thumb.phase = "rejected" => thumb.generated = Failed
       /\ (thumb.phase = "resolved" /\ thumb.last = 1) =>
            /\ thumb.at \in DOMAIN assets
            /\ assets[thumb.at].previewData = thumb.generated
            /\ DOMAIN assets = DOMAIN thumb.pre.assets
            /\ \A p \in DOMAIN assets :
                 /\ SameButPreview(assets[p], thumb.pre.assets[p])
                 /\ p # thumb.at => assets[p] = thumb.pre.assets[p]
            /\ C1_IndexConsistency
  /\ (/\ thumb.phase = "resolved" /\ thumb.second.phase = "resolved"
      /\ thumb.at # Gone /\ thumb.second.at = thumb.at) =>
       /\ thumb.at \in DOMAIN assets
       /\ assets[thumb.at].previewData =
            (IF thumb.last = 1 THEN thumb.generated ELSE thumb.second.generated)

====
